---- MODULE Spec2Model ----
(***************************************************************************)
(* A model of find-my-daycare: the age classifier (utils/age_mapper.py),   *)
(* the nearby-facility filter and ranker, the walk-time parser, the        *)
(* statistics aggregator and the two request handlers (app.py), the        *)
(* geocoder (utils/geocoding.py) and the travel-time annotator             *)
(* (utils/travel_time.py).                                                 *)
(*                                                                         *)
(* Conventions.                                                            *)
(*  - Python's None and pandas' NaN are the model value Null; a value that  *)
(*    may be None or NaN is carried as Some(x) when it is present.         *)
(*  - A date is a record [y, m, d].                                        *)
(*  - Coordinates are metres of arc along one meridian: a latitude is an   *)
(*    integer number of metres, every longitude is MeridianLon.  Distances *)
(*    are integer metres, so 5.0 km is 5000 and round(x, 2) yields a       *)
(*    number of hundredths of a kilometre (10 m units).                    *)
(*  - A Python string is a sequence of one-character strings.              *)
(*  - A call that may raise returns a record with a field "raised".        *)
(***************************************************************************)
EXTENDS Integers, Sequences, FiniteSets, TLC

VARIABLES
    op,          \* the operation called: the name of the function
    pc,          \* position of the call: "start" or "done"
    birthday,    \* child's birth date (a date, or Null when unused)
    reference,   \* reference (start) date
    age_months,  \* result of calculate_age_in_months
    age_group,   \* key of the AGE_GROUPS entry returned by get_age_group
    df,          \* the dataset rows read for the request
    user,        \* the user's coordinate <<lat, lon>>
    found,       \* outcome of find_nearby_daycares: [raised, results]
    results,     \* the result list handed to calculate_stats
    stats,       \* outcome of calculate_stats: [raised, value]
    walk_str,    \* input of parse_walk_time
    walk_out,    \* outcome of parse_walk_time: [raised, value]
    payload,     \* JSON body of a shortlist request (Null: no body)
    reply,       \* JSON response of the shortlist endpoint, with its status
    mail_calls,  \* the calls of send_shortlist_email, in order
    form,        \* form fields of a search request
    today,       \* the date datetime.now() gives during the request
    errors,      \* the error list of the search request
    page,        \* the response of the search request (Null: none yet)
    calls        \* the calls out of the search handler, in order

vars == <<op, pc, birthday, reference, age_months, age_group, df, user, found,
          results, stats, walk_str, walk_out, payload, reply, mail_calls,
          form, today, errors, page, calls>>

Null == [none |-> TRUE]

Some(x) == [some |-> x]

Abs(x) == IF x < 0 THEN -x ELSE x

Min(a, b) == IF a <= b THEN a ELSE b

(***************************************************************************)
(* Bounds of the model.                                                    *)
(***************************************************************************)
\* birth years run over FirstBirthYear .. FirstBirthYear + YearSpan
YearSpan == 7
\* rows of a dataset
MaxRows == 3
\* records of a result list handed to calculate_stats
MaxResults == 4
\* tokens of a walk-time string
MaxTokens == 4
\* tokens of the email of a shortlist request
MaxEmailTokens == 3
\* rows of the dataset of a search request
MaxFacilities == 22

(***************************************************************************)
(* Dates (datetime.date) and dateutil's relativedelta.                     *)
(***************************************************************************)
IsLeap(y) == (y % 4 = 0 /\ y % 100 # 0) \/ y % 400 = 0

DaysInMonth(y, m) ==
    IF m = 2 THEN (IF IsLeap(y) THEN 29 ELSE 28)
    ELSE IF m \in {4, 6, 9, 11} THEN 30 ELSE 31

Date(y, m, d) == [y |-> y, m |-> m, d |-> d]

IsDate(x) == x.m \in 1..12 /\ x.d \in 1..DaysInMonth(x.y, x.m)

\* a < b on dates
DateLT(a, b) ==
    \/ a.y < b.y
    \/ a.y = b.y /\ a.m < b.m
    \/ a.y = b.y /\ a.m = b.m /\ a.d < b.d

DateLE(a, b) == a = b \/ DateLT(a, b)

\* relativedelta._set_months: months split into (years, months) of one sign
SetMonths(months) ==
    IF Abs(months) > 11
    THEN LET s == IF months < 0 THEN -1 ELSE 1
         IN  [years |-> ((months * s) \div 12) * s, months |-> ((months * s) % 12) * s]
    ELSE [years |-> 0, months |-> months]

\* relativedelta.__radd__: dt + (years, months), the day clipped to the month
RAdd(delta, dt) ==
    LET y0 == dt.y + delta.years
        m0 == dt.m + delta.months
        y1 == IF m0 > 12 THEN y0 + 1 ELSE IF m0 < 1 THEN y0 - 1 ELSE y0
        m1 == IF m0 > 12 THEN m0 - 12 ELSE IF m0 < 1 THEN m0 + 12 ELSE m0
    IN  Date(y1, m1, Min(DaysInMonth(y1, m1), dt.d))

\* relativedelta(dt1, dt2): the adjustment loop on the month count
RECURSIVE AdjustMonths(_, _, _)
AdjustMonths(dt1, dt2, months) ==
    LET dtm == RAdd(SetMonths(months), dt2)
    IN  IF DateLT(dt1, dt2)
        THEN (IF DateLT(dtm, dt1) THEN AdjustMonths(dt1, dt2, months + 1) ELSE months)
        ELSE (IF DateLT(dt1, dtm) THEN AdjustMonths(dt1, dt2, months - 1) ELSE months)

relativedelta(dt1, dt2) ==
    SetMonths(AdjustMonths(dt1, dt2, (dt1.y - dt2.y) * 12 + (dt1.m - dt2.m)))

(***************************************************************************)
(* utils/age_mapper.py                                                     *)
(***************************************************************************)
GroupOrder == <<"infant", "toddler", "preschool", "kindergarten", "school_age">>

\* AGE_GROUPS with the toddler bracket starting one month late
AGE_GROUPS_Gap ==
    [infant       |-> [column |-> "IGSPACE", min_months |-> 0,  max_months |-> Some(18)],
     toddler      |-> [column |-> "TGSPACE", min_months |-> 19, max_months |-> Some(30)],
     preschool    |-> [column |-> "PGSPACE", min_months |-> 30, max_months |-> Some(48)],
     kindergarten |-> [column |-> "KGSPACE", min_months |-> 48, max_months |-> Some(72)],
     school_age   |-> [column |-> "SGSPACE", min_months |-> 72, max_months |-> Null]]

AGE_GROUPS ==
    [infant       |-> [column |-> "IGSPACE", min_months |-> 0,  max_months |-> Some(18)],
     toddler      |-> [column |-> "TGSPACE", min_months |-> 18, max_months |-> Some(30)],
     preschool    |-> [column |-> "PGSPACE", min_months |-> 30, max_months |-> Some(48)],
     kindergarten |-> [column |-> "KGSPACE", min_months |-> 48, max_months |-> Some(72)],
     school_age   |-> [column |-> "SGSPACE", min_months |-> 72, max_months |-> Null]]

calculate_age_in_months(birth, ref) ==
    LET diff == relativedelta(ref, birth)
    IN  diff.years * 12 + diff.months

\* the test of get_age_group with the upper bound taken as inclusive
GroupMatchesOffByOne(g, months) ==
    LET min_m == AGE_GROUPS[g].min_months
        max_m == AGE_GROUPS[g].max_months
    IN  IF max_m = Null THEN months >= min_m
        ELSE min_m <= months /\ months <= max_m.some

\* the test get_age_group applies to one entry of AGE_GROUPS
GroupMatches(g, months) ==
    LET min_m == AGE_GROUPS[g].min_months
        max_m == AGE_GROUPS[g].max_months
    IN  IF max_m = Null THEN months >= min_m
        ELSE min_m <= months /\ months < max_m.some

\* the loop over AGE_GROUPS.values(), in insertion order, from entry i on
RECURSIVE FirstMatch(_, _)
FirstMatch(i, months) ==
    IF i > Len(GroupOrder) THEN "infant"
    ELSE IF GroupMatches(GroupOrder[i], months) THEN GroupOrder[i]
    ELSE FirstMatch(i + 1, months)

GroupOfMonths(months) == FirstMatch(1, months)

get_age_group(birth, ref) == GroupOfMonths(calculate_age_in_months(birth, ref))

(***************************************************************************)
(* app.py: parse_geometry, find_nearby_daycares.                           *)
(*                                                                         *)
(* A dataset row is a record with the columns the search reads: LOC_ID,    *)
(* geometry, the five bracket capacities (Null for NaN), TOTSPACE, subsidy *)
(* and cwelcc_flag.  The columns copied to the output unchanged (name,     *)
(* address, postal code, phone, label and the supplementary fields) are    *)
(* left out.  A geometry is the outcome of json.loads on the column:       *)
(* [json |-> "invalid"] when it does not decode, else [json |-> "object",  *)
(* type, coordinates], type Null when the key is absent.                   *)
(***************************************************************************)
\* 5.0 km, in metres
SEARCH_RADIUS_KM == 5000

\* the longitude of every point of the model
MeridianLon == 0 - 79

Point(lat) ==
    [json |-> "object", type |-> Some("Point"), coordinates |-> <<MeridianLon, lat>>]

BadJson == [json |-> "invalid", type |-> Null, coordinates |-> <<>>]

Returned(v) == [raised |-> FALSE, value |-> v, exc |-> ""]

Raised == [raised |-> TRUE, value |-> Null, exc |-> "ValueError"]

\* parse_geometry: Some(<<lat, lon>>), Null, or the ValueError of unpacking
\* a coordinate list that does not hold two items
parse_geometry(geom) ==
    IF geom.json = "invalid" THEN Returned(Null)
    ELSE IF geom.type = Null THEN Returned(Null)
    ELSE IF geom.type.some = "Point"
         THEN (IF Len(geom.coordinates) = 2
               THEN Returned(Some(<<geom.coordinates[2], geom.coordinates[1]>>))
               ELSE Raised)
    ELSE Returned(Null)

\* utils.distance.haversine_distance, restricted to points of one meridian,
\* where the great-circle distance is the difference of the arc positions
haversine_distance(lat1, lon1, lat2, lon2) == Abs(lat1 - lat2)

\* Python's round(x) of the rational num / den (den > 0): the nearest
\* integer, a tie going to the even one
RoundHalfEven(num, den) ==
    LET q == num \div den
        r == num % den
    IN  IF 2 * r < den THEN q
        ELSE IF 2 * r > den THEN q + 1
        ELSE IF q % 2 = 0 THEN q ELSE q + 1

\* the significand of a float: 53 bits
MANT_DIG == 53

\* 2^n, n >= 0
RECURSIVE Pow2(_)
Pow2(n) == IF n = 0 THEN 1 ELSE 2 * Pow2(n - 1)

\* the number of bits of q >= 0
RECURSIVE BitLength(_)
BitLength(q) == IF q = 0 THEN 0 ELSE 1 + BitLength(q \div 2)

\* the binary digits of r / den (0 < r < den) up to its first 1: the
\* remainder after that digit and its exponent
RECURSIVE LeadingZeros(_, _, _)
LeadingZeros(r, den, exp) ==
    IF 2 * r >= den THEN [r |-> 2 * r - den, exp |-> exp - 1, bits |-> 1, last |-> 1]
    ELSE LeadingZeros(2 * r, den, exp - 1)

\* the binary digits of num / den from its first 1 on, as far as num \div den
\* gives them
LeadingBits(num, den) ==
    IF num >= den
    THEN [r |-> num % den, exp |-> BitLength(num \div den) - 1,
          bits |-> BitLength(num \div den), last |-> (num \div den) % 2]
    ELSE LeadingZeros(num, den, 0)

\* the digits that follow, down to the last of the MANT_DIG digits of a
\* float: the remainder r (the part of num / den cut off is r / den of a
\* unit of the last digit) and the last digit
RECURSIVE Significand(_, _, _, _, _)
Significand(r, den, exp, bits, last) ==
    IF bits >= MANT_DIG THEN [r |-> r, exp |-> exp, last |-> last]
    ELSE IF 2 * r >= den THEN Significand(2 * r - den, den, exp, bits + 1, 1)
    ELSE Significand(2 * r, den, exp, bits + 1, 0)

\* the rounding of the digits cut off, to the nearest float, a tie to the
\* even significand: sign is that of float - num / den, err / den the size of
\* the difference in units of the last digit, exp the exponent of num / den
NearestFloat(cut, den) ==
    IF cut.r = 0 THEN [sign |-> 0, err |-> 0, exp |-> cut.exp]
    ELSE IF 2 * cut.r < den THEN [sign |-> 0 - 1, err |-> cut.r, exp |-> cut.exp]
    ELSE IF 2 * cut.r > den THEN [sign |-> 1, err |-> den - cut.r, exp |-> cut.exp]
    ELSE IF cut.last = 1 THEN [sign |-> 1, err |-> cut.r, exp |-> cut.exp]
    ELSE [sign |-> 0 - 1, err |-> cut.r, exp |-> cut.exp]

\* the MANT_DIG digits of num / den, given the leading ones
SignificandOf(lead, den) == Significand(lead.r, den, lead.exp, lead.bits, lead.last)

\* the float num / den (0 < num, 0 < den) against the rational num / den
FloatQuotient(num, den) == NearestFloat(SignificandOf(LeadingBits(num, den), den), den)

\* round(x) of a float x that lies at, just above (sign > 0) or just below
\* (sign < 0) q + 1/2
RoundAtHalf(q, sign) ==
    IF sign > 0 THEN q + 1
    ELSE IF sign < 0 THEN q
    ELSE IF q % 2 = 0 THEN q ELSE q + 1

\* round(distance, 2) of a distance in metres, in hundredths of a kilometre:
\* the float metres / 1000 is rounded, which for a half of a hundredth lies
\* above or below the half
Round2(distance) ==
    IF distance % 10 = 5
    THEN RoundAtHalf(distance \div 10, FloatQuotient(distance, 1000).sign)
    ELSE RoundHalfEven(distance, 10)

\* "distance >= SEARCH_RADIUS_KM": the radius taken as exclusive
TooFarExclusive(distance, radius) == distance >= radius

\* "distance < SEARCH_RADIUS_KM": the comparison inverted
TooFarInverted(distance, radius) == distance < radius

\* line 88: distance > SEARCH_RADIUS_KM
TooFar(distance, radius) == distance > radius

\* "int(capacity) < 0": a capacity of zero let through
NoCapacityZeroOk(capacity) == capacity = Null \/ capacity.some < 0

\* line 92: pd.isna(capacity) or int(capacity) <= 0
NoCapacity(capacity) == capacity = Null \/ capacity.some <= 0

\* int(x) if not pd.isna(x) else 0
SpacesOrZero(x) == IF x = Null THEN 0 ELSE x.some

\* lines 95-121: the output record of a qualifying row; int() of a NaN
\* LOC_ID or TOTSPACE raises
FormatRow(row, distance, capacity, lat, lon) ==
    IF row.LOC_ID = Null \/ row.TOTSPACE = Null THEN Raised
    ELSE Returned(
           [loc_id |-> row.LOC_ID.some,
            distance_km |-> Round2(distance),
            capacity |-> capacity.some,
            total_spaces |-> row.TOTSPACE.some,
            subsidy |-> (row.subsidy = "Y"),
            cwelcc |-> (row.cwelcc_flag = "Y"),
            lat |-> lat,
            lon |-> lon,
            infant_spaces |-> SpacesOrZero(row.IGSPACE),
            toddler_spaces |-> SpacesOrZero(row.TGSPACE),
            preschool_spaces |-> SpacesOrZero(row.PGSPACE),
            kindergarten_spaces |-> SpacesOrZero(row.KGSPACE),
            schoolage_spaces |-> SpacesOrZero(row.SGSPACE),
            website |-> IF "website" \in DOMAIN row THEN row.website ELSE Null])

\* lines 80-121, one iteration of the loop over the rows: Returned(Null) when
\* the row is skipped, Returned(Some(record)) when it is appended, or Raised
ProcessRow(radius, user_lat, user_lon, capacity_column, row) ==
    LET coords == parse_geometry(row.geometry)
    IN  IF coords.raised THEN Raised
        ELSE IF coords.value = Null THEN Returned(Null)
        ELSE LET daycare_lat == coords.value.some[1]
                 daycare_lon == coords.value.some[2]
                 distance == haversine_distance(user_lat, user_lon, daycare_lat, daycare_lon)
                 capacity == row[capacity_column]
             IN  IF TooFar(distance, radius) THEN Returned(Null)
                 ELSE IF NoCapacity(capacity) THEN Returned(Null)
                 ELSE LET rec == FormatRow(row, distance, capacity, daycare_lat, daycare_lon)
                      IN  IF rec.raised THEN Raised ELSE Returned(Some(rec.value))

\* the loop of lines 79-121 from row i on, acc the results so far
RECURSIVE ScanRows(_, _, _, _, _, _, _)
ScanRows(radius, user_lat, user_lon, capacity_column, rows, i, acc) ==
    IF i > Len(rows) THEN Returned(acc)
    ELSE LET step == ProcessRow(radius, user_lat, user_lon, capacity_column, rows[i])
         IN  IF step.raised THEN Raised
             ELSE ScanRows(radius, user_lat, user_lon, capacity_column, rows, i + 1,
                           IF step.value = Null THEN acc ELSE Append(acc, step.value.some))

\* x put before the items whose key is equal: an unstable sort
RECURSIVE InsertBeforeEqual(_, _)
InsertBeforeEqual(sorted, x) ==
    IF sorted = <<>> THEN <<x>>
    ELSE IF sorted[Len(sorted)].distance_km < x.distance_km THEN Append(sorted, x)
    ELSE Append(InsertBeforeEqual(SubSeq(sorted, 1, Len(sorted) - 1), x),
                sorted[Len(sorted)])

\* x put into a list sorted by distance_km, after the items whose key is not
\* greater: the place a stable sort gives the last item of its input
RECURSIVE InsertByDistance(_, _)
InsertByDistance(sorted, x) ==
    IF sorted = <<>> THEN <<x>>
    ELSE IF sorted[Len(sorted)].distance_km <= x.distance_km THEN Append(sorted, x)
    ELSE Append(InsertByDistance(SubSeq(sorted, 1, Len(sorted) - 1), x),
                sorted[Len(sorted)])

RECURSIVE StableSort(_)
StableSort(list) ==
    IF list = <<>> THEN <<>>
    ELSE InsertByDistance(StableSort(SubSeq(list, 1, Len(list) - 1)), list[Len(list)])

\* the list left in scan order: the sort forgotten
SortByDistanceNone(list) == list

\* line 123: results.sort(key=lambda x: x["distance_km"]), a stable sort
SortByDistance(list) == StableSort(list)

\* find_nearby_daycares with the radius as a parameter
FindNearby(radius, user_lat, user_lon, birth, rows, start_date) ==
    LET group == get_age_group(birth, start_date)
        capacity_column == AGE_GROUPS[group].column
        scanned == ScanRows(radius, user_lat, user_lon, capacity_column, rows, 1, <<>>)
    IN  IF scanned.raised THEN Raised
        ELSE Returned(SortByDistance(scanned.value))

find_nearby_daycares(user_lat, user_lon, birth, rows, start_date) ==
    FindNearby(SEARCH_RADIUS_KM, user_lat, user_lon, birth, rows, start_date)

(***************************************************************************)
(* Python strings, as sequences of one-character strings: the str and int  *)
(* operations parse_walk_time uses.  The only whitespace character of the  *)
(* model's strings is the space, and they hold no underscore.              *)
(***************************************************************************)
Digits == {"0", "1", "2", "3", "4", "5", "6", "7", "8", "9"}

DigitValue(c) ==
    CASE c = "0" -> 0 [] c = "1" -> 1 [] c = "2" -> 2 [] c = "3" -> 3 [] c = "4" -> 4
      [] c = "5" -> 5 [] c = "6" -> 6 [] c = "7" -> 7 [] c = "8" -> 8 [] c = "9" -> 9

\* pat occurs in s at index i
OccursAt(s, pat, i) ==
    /\ i >= 1
    /\ i + Len(pat) - 1 <= Len(s)
    /\ \A k \in 1..Len(pat) : s[i + k - 1] = pat[k]

\* "pat in s"
Contains(s, pat) == \E i \in 1..(Len(s) + 1) : OccursAt(s, pat, i)

\* s.split(pat), pat not empty: the pieces between the occurrences of pat,
\* found from the left
RECURSIVE SplitOn(_, _)
SplitOn(s, pat) ==
    IF ~Contains(s, pat) THEN <<s>>
    ELSE LET i == CHOOSE j \in 1..Len(s) :
                     OccursAt(s, pat, j) /\ \A k \in 1..(j - 1) : ~OccursAt(s, pat, k)
         IN  <<SubSeq(s, 1, i - 1)>> \o SplitOn(SubSeq(s, i + Len(pat), Len(s)), pat)

RECURSIVE LStrip(_)
LStrip(s) == IF s # <<>> /\ s[1] = " " THEN LStrip(Tail(s)) ELSE s

RECURSIVE RStrip(_)
RStrip(s) ==
    IF s # <<>> /\ s[Len(s)] = " " THEN RStrip(SubSeq(s, 1, Len(s) - 1)) ELSE s

\* s.strip()
Strip(s) == RStrip(LStrip(s))

\* s.split(): the words between runs of whitespace
RECURSIVE SplitWords(_)
SplitWords(s) ==
    LET t == LStrip(s)
    IN  IF t = <<>> THEN <<>>
        ELSE LET n == IF \E j \in 1..Len(t) : t[j] = " "
                      THEN (CHOOSE j \in 1..Len(t) :
                                t[j] = " " /\ \A k \in 1..(j - 1) : t[k] # " ") - 1
                      ELSE Len(t)
             IN  <<SubSeq(t, 1, n)>> \o SplitWords(SubSeq(t, n + 1, Len(t)))

RECURSIVE DigitsValue(_)
DigitsValue(s) ==
    IF s = <<>> THEN 0
    ELSE 10 * DigitsValue(SubSeq(s, 1, Len(s) - 1)) + DigitValue(s[Len(s)])

DigitChar(n) ==
    CASE n = 0 -> "0" [] n = 1 -> "1" [] n = 2 -> "2" [] n = 3 -> "3" [] n = 4 -> "4"
      [] n = 5 -> "5" [] n = 6 -> "6" [] n = 7 -> "7" [] n = 8 -> "8" [] n = 9 -> "9"

\* the decimal numeral of n >= 0
RECURSIVE Dec(_)
Dec(n) == IF n < 10 THEN <<DigitChar(n)>> ELSE Dec(n \div 10) \o <<DigitChar(n % 10)>>

\* int() of a stripped string: an optional sign, then digits
IntOfStripped(t) ==
    IF t # <<>> /\ t[1] \in {"+", "-"}
    THEN (IF Len(t) = 1 \/ \E k \in 2..Len(t) : t[k] \notin Digits THEN Null
          ELSE IF t[1] = "-" THEN Some(0 - DigitsValue(Tail(t)))
          ELSE Some(DigitsValue(Tail(t))))
    ELSE (IF t = <<>> \/ \E k \in 1..Len(t) : t[k] \notin Digits THEN Null
          ELSE Some(DigitsValue(t)))

\* int(s): Some(n), or Null for the ValueError of a string that is no integer
\* literal (whitespace around it allowed, an optional sign, then digits)
IntOf(s) == IntOfStripped(Strip(s))

(***************************************************************************)
(* app.py: parse_walk_time, calculate_stats.                               *)
(***************************************************************************)
HOUR == <<"h", "o", "u", "r">>

MIN == <<"m", "i", "n">>

NA == <<"N", "/", "A">>

Failed(exc) == [raised |-> TRUE, value |-> Null, exc |-> exc]

\* lines 137-139, given parts = walk_time_str.split("hour") and
\* hours = int(parts[0].strip())
HourOutcome(parts, hours) ==
    IF hours = Null THEN [exc |-> "ValueError", minutes |-> 0, rest |-> <<>>]
    ELSE [exc |-> "", minutes |-> hours.some * 60,
          rest |-> IF Len(parts) > 1 THEN parts[2] ELSE <<>>]

HourOfParts(parts) == HourOutcome(parts, IntOf(Strip(parts[1])))

\* lines 135-139: the hour component: [exc, minutes, rest]
HourPart(s) ==
    IF Contains(s, HOUR) THEN HourOfParts(SplitOn(s, HOUR))
    ELSE [exc |-> "", minutes |-> 0, rest |-> s]

\* line 145, given min_num
MinuteOutcome(n) ==
    IF n = Null THEN [exc |-> "ValueError", minutes |-> 0]
    ELSE [exc |-> "", minutes |-> n.some]

\* line 144, given min_part and min_part.split(): the last word, "0" for an
\* empty min_part, IndexError for no word
MinuteOfWords(min_part, words) ==
    IF min_part = <<>> THEN MinuteOutcome(IntOf(<<"0">>))
    ELSE IF words = <<>> THEN [exc |-> "IndexError", minutes |-> 0]
    ELSE MinuteOutcome(IntOf(words[Len(words)]))

MinuteOfPart(min_part) == MinuteOfWords(min_part, SplitWords(min_part))

\* lines 141-145: the minute component: [exc, minutes]
MinutePart(s) ==
    IF Contains(s, MIN) THEN MinuteOfPart(Strip(SplitOn(s, MIN)[1]))
    ELSE [exc |-> "", minutes |-> 0]

\* the total of the two components, or the exception of the minute one
AddMinutes(hour_minutes, m) ==
    IF m.exc # "" THEN [exc |-> m.exc, total |-> 0]
    ELSE [exc |-> "", total |-> hour_minutes + m.minutes]

AfterHour(h) ==
    IF h.exc # "" THEN [exc |-> h.exc, total |-> 0]
    ELSE AddMinutes(h.minutes, MinutePart(h.rest))

\* lines 133-146, the body of the try: [exc, total_minutes]
WalkMinutes(s) == AfterHour(HourPart(s))

\* "total_minutes if total_minutes >= 0": a total of zero returned
PositiveOrNoneZeroOk(total) == IF total >= 0 THEN Some(total) ELSE Null

\* line 146: total_minutes if total_minutes > 0 else None
PositiveOrNone(total) == IF total > 0 THEN Some(total) ELSE Null

\* the exceptions line 147 catches
CaughtByParse == {"ValueError", "AttributeError", "IndexError"}

\* lines 146-148: the return value, None for a caught exception
WalkOutcome(body) ==
    IF body.exc = "" THEN Returned(PositiveOrNone(body.total))
    ELSE IF body.exc \in CaughtByParse THEN Returned(Null)
    ELSE Failed(body.exc)

\* parse_walk_time of None (Null) or of a string: Returned(Some(minutes)),
\* Returned(Null) for None, or the exception that escapes
parse_walk_time(walk_time_str) ==
    IF walk_time_str = Null \/ walk_time_str.some = <<>> \/ walk_time_str.some = NA
    THEN Returned(Null)
    ELSE WalkOutcome(WalkMinutes(walk_time_str.some))

\* r.get(key, default) on a result record
Get(r, key, default) == IF key \in DOMAIN r THEN r[key] ELSE default

\* sum(f(r) for r in list), f given as the sequence of its values
RECURSIVE SumOf(_)
SumOf(values) ==
    IF values = <<>> THEN 0
    ELSE SumOf(SubSeq(values, 1, Len(values) - 1)) + values[Len(values)]

\* int(count / total * 100): the percentage truncated
PercentTruncated(count, total) == IF total > 0 THEN (count * 100) \div total ELSE 0

\* floor(log2(k + 1/2)), k >= 0
FloorLog2Half(k) == BitLength(2 * k + 1) - 2

\* round(quotient * 100) where count / total * 100 is k + 1/2 and quotient the
\* float count / total: the float product is k + 1/2 when 100 times the
\* difference of the quotient is at most half a unit of the last digit of
\* k + 1/2, else the float next to it on the side of the quotient
RoundProduct(k, quotient, total) ==
    IF quotient.sign = 0
          \/ 100 * quotient.err <= Pow2(FloorLog2Half(k) - quotient.exp - 1) * total
    THEN RoundAtHalf(k, 0)
    ELSE RoundAtHalf(k, quotient.sign)

\* lines 178, 180: round(count / total * 100) if total > 0 else 0, the
\* quotient and the product taken in floats
Percent(count, total) ==
    IF total <= 0 THEN 0
    ELSE IF 2 * ((count * 100) % total) = total
    THEN RoundProduct((count * 100) \div total, FloatQuotient(count, total), total)
    ELSE RoundHalfEven(count * 100, total)

\* "minutes is None or minutes <= 15": a result without walk time counted
WalkableOfAbsentCounted(minutes) ==
    IF minutes.raised THEN minutes
    ELSE IF minutes.value = Null THEN Returned(1)
    ELSE IF minutes.value.some <= 15 THEN Returned(1)
    ELSE Returned(0)

\* lines 162-163, given minutes = parse_walk_time(...)
WalkableOf(minutes) ==
    IF minutes.raised THEN minutes
    ELSE IF minutes.value # Null /\ minutes.value.some <= 15 THEN Returned(1)
    ELSE Returned(0)

\* lines 161-163: 1 for a result within 15 minutes' walk, else 0, or the
\* exception parse_walk_time lets out
WalkableFlag(r) == WalkableOf(parse_walk_time(Get(r, "walk_time", Null)))

\* lines 174-182, given the counts
StatsOf(total, walkable, cwelcc_count, subsidy_count, total_spaces) ==
    IF \E k \in 1..total : walkable[k].raised
    THEN walkable[CHOOSE k \in 1..total :
                     walkable[k].raised /\ \A j \in 1..(k - 1) : ~walkable[j].raised]
    ELSE Returned(
           [total |-> total,
            walking_distance |-> SumOf([k \in 1..total |-> walkable[k].value]),
            cwelcc_count |-> cwelcc_count,
            cwelcc_percent |-> Percent(cwelcc_count, total),
            subsidy_count |-> subsidy_count,
            subsidy_percent |-> Percent(subsidy_count, total),
            total_spaces |-> total_spaces])

\* lines 156-182, the statistics of a list of any length
StatsRecord(list) ==
    StatsOf(Len(list),
            [k \in 1..Len(list) |-> WalkableFlag(list[k])],
            SumOf([k \in 1..Len(list) |-> IF Get(list[k], "cwelcc", FALSE) THEN 1 ELSE 0]),
            SumOf([k \in 1..Len(list) |-> IF Get(list[k], "subsidy", FALSE) THEN 1 ELSE 0]),
            SumOf([k \in 1..Len(list) |-> Get(list[k], "capacity", 0)]))

\* calculate_stats without lines 153-154 and without the "if total > 0"
\* guards: the percentages of an empty list divide by zero
calculate_stats_Unguarded(list) ==
    IF list = <<>> THEN Failed("ZeroDivisionError") ELSE StatsRecord(list)

\* calculate_stats: the empty dict for an empty list
calculate_stats(list) ==
    IF list = <<>> THEN Returned(<<>>) ELSE StatsRecord(list)

(***************************************************************************)
(* app.py: send_shortlist.  The JSON body is Null (no body) or Some(dict),  *)
(* a dict a function from some of the keys "email", "daycares",            *)
(* "searchAddress"; the email and the address are strings, the daycares a  *)
(* list.                                                                   *)
(***************************************************************************)
LowerLetters ==
    {"a", "b", "c", "d", "e", "f", "g", "h", "i", "j", "k", "l", "m",
     "n", "o", "p", "q", "r", "s", "t", "u", "v", "w", "x", "y", "z"}

UpperLetters ==
    {"A", "B", "C", "D", "E", "F", "G", "H", "I", "J", "K", "L", "M",
     "N", "O", "P", "Q", "R", "S", "T", "U", "V", "W", "X", "Y", "Z"}

\* [a-zA-Z]
Letters == LowerLetters \cup UpperLetters

\* [a-zA-Z0-9._%+-]
LocalChars == Letters \cup Digits \cup {".", "_", "%", "+", "-"}

\* [a-zA-Z0-9.-]
DomainChars == Letters \cup Digits \cup {".", "-"}

\* the number of leading characters of s that lie in class
RECURSIVE RunLength(_, _)
RunLength(s, class) ==
    IF s # <<>> /\ s[1] \in class THEN 1 + RunLength(Tail(s), class) ELSE 0

\* the number of trailing characters of s that lie in class
RECURSIVE TailRunLength(_, _)
TailRunLength(s, class) ==
    IF s # <<>> /\ s[Len(s)] \in class
    THEN 1 + TailRunLength(SubSeq(s, 1, Len(s) - 1), class)
    ELSE 0

\* "[a-zA-Z0-9.-]+\.[a-zA-Z]{2,}$" matched against the whole of rest, given
\* the number of letters rest ends with: the top-level part takes them all,
\* for the character before it has to be the dot
MatchesDomain(rest, tld) ==
    /\ tld >= 2
    /\ Len(rest) - tld >= 2
    /\ rest[Len(rest) - tld] = "."
    /\ \A k \in 1..(Len(rest) - tld - 1) : rest[k] \in DomainChars

\* the match from the end of the local part on: "@", then the domain
MatchesAfterLocal(s, local) ==
    /\ local >= 1
    /\ local < Len(s)
    /\ s[local + 1] = "@"
    /\ MatchesDomain(SubSeq(s, local + 2, Len(s)),
                     TailRunLength(SubSeq(s, local + 2, Len(s)), Letters))

\* lines 297-298: re.match(email_pattern, email); the local part is the
\* longest run of its class, for "@" is not of the class
MatchesEmailPattern(s) == MatchesAfterLocal(s, RunLength(s, LocalChars))

\* the test of line 302 dropped: an empty list accepted
NoDaycaresNever(daycares) == FALSE

\* line 302: not daycares or len(daycares) == 0
NoDaycares(daycares) == daycares = <<>>

JsonReply(status, success, text) ==
    [status |-> status, success |-> success, text |-> text]

YOUR_LOCATION ==
    <<"y", "o", "u", "r", " ", "l", "o", "c", "a", "t", "i", "o", "n">>

\* lines 305-311, given the validated fields and what send_shortlist_email
\* returns
SendAndReply(email, daycares, search_address, success) ==
    [calls |-> <<[to_email |-> email, daycares |-> daycares,
                  search_address |-> search_address]>>,
     reply |-> IF success THEN JsonReply(200, TRUE, "Email sent successfully")
               ELSE JsonReply(500, FALSE, "Failed to send email. Please try again.")]

Rejected(text) == [calls |-> <<>>, reply |-> JsonReply(400, FALSE, text)]

\* lines 293-311, given email = data.get("email", "").strip(), daycares and
\* search_address
ValidateShortlist(email, daycares, search_address, success) ==
    IF email = <<>> THEN Rejected("Email is required")
    ELSE IF ~MatchesEmailPattern(email) THEN Rejected("Invalid email format")
    ELSE IF NoDaycares(daycares) THEN Rejected("No daycares in shortlist")
    ELSE SendAndReply(email, daycares, search_address, success)

\* send_shortlist on the body data, success the value send_shortlist_email
\* returns if it is called: [calls, reply]
send_shortlist(data, success) ==
    IF data = Null \/ DOMAIN data.some = {} THEN Rejected("No data provided")
    ELSE ValidateShortlist(Strip(Get(data.some, "email", <<>>)),
                           Get(data.some, "daycares", <<>>),
                           Get(data.some, "searchAddress", YOUR_LOCATION),
                           success)

(***************************************************************************)
(* app.py: index, the search handler.  A form is a function from some of   *)
(* the keys "address", "birthday", "start_date" to strings.                *)
(***************************************************************************)
DASH == <<"-">>

AllDigits(s) == \A k \in 1..Len(s) : s[k] \in Digits

\* "%m" of strptime: 1[0-2] | 0[1-9] | [1-9]
MonthField(s) ==
    IF Len(s) \in {1, 2} /\ AllDigits(s) /\ DigitsValue(s) \in 1..12
    THEN Some(DigitsValue(s)) ELSE Null

\* "%d" of strptime: 3[01] | [12]\d | 0[1-9] | [1-9] | " "[1-9]
DayField(s) ==
    IF Len(s) \in {1, 2} /\ AllDigits(s) /\ DigitsValue(s) \in 1..31
    THEN Some(DigitsValue(s))
    ELSE IF Len(s) = 2 /\ s[1] = " " /\ s[2] \in Digits \ {"0"}
    THEN Some(DigitValue(s[2]))
    ELSE Null

\* "%Y" of strptime: four digits; the year 0 is no year of a datetime
YearField(s) ==
    IF Len(s) = 4 /\ AllDigits(s) /\ DigitsValue(s) >= 1
    THEN Some(DigitsValue(s)) ELSE Null

\* the datetime of the three fields, Null for a ValueError
DateOfFields(y, m, d) ==
    IF y = Null \/ m = Null \/ d = Null THEN Null
    ELSE IF d.some > DaysInMonth(y.some, m.some) THEN Null
    ELSE Some(Date(y.some, m.some, d.some))

DateOfParts(parts) ==
    IF Len(parts) # 3 THEN Null
    ELSE DateOfFields(YearField(parts[1]), MonthField(parts[2]), DayField(parts[3]))

\* datetime.strptime(s, "%Y-%m-%d"): Some(date), or Null for its ValueError
strptime(s) == DateOfParts(SplitOn(s, DASH))

\* n written with two digits
Pad2(n) == IF n < 10 THEN <<"0">> \o Dec(n) ELSE Dec(n)

\* dt.strftime("%Y-%m-%d"), for a year of four digits
strftime(dt) == Dec(dt.y) \o DASH \o Pad2(dt.m) \o DASH \o Pad2(dt.d)

\* lines 201-206: [value, errors] of the birthday field
BirthdayField(birthday_str) ==
    IF birthday_str = <<>> THEN [value |-> Null, errors |-> <<>>]
    ELSE IF strptime(birthday_str) = Null
    THEN [value |-> Null, errors |-> <<"Invalid birthday format">>]
    ELSE [value |-> strptime(birthday_str), errors |-> <<>>]

\* lines 209-217: [value, text, errors] of the start date field, now the date
\* datetime.now() gives
StartDateField(start_date_str, now) ==
    IF start_date_str = <<>>
    THEN [value |-> Some(now), text |-> strftime(now), errors |-> <<>>]
    ELSE IF strptime(start_date_str) = Null
    THEN [value |-> Null, text |-> start_date_str,
          errors |-> <<"Invalid start date format">>]
    ELSE [value |-> strptime(start_date_str), text |-> start_date_str, errors |-> <<>>]

\* the test of line 220 dropped
BirthdayAfterStartNever(b, s) == FALSE

\* line 220: birthday and start_date and birthday > start_date
BirthdayAfterStart(b, s) == b # Null /\ s # Null /\ DateLT(s.some, b.some)

\* lines 193-221, given the stripped fields and the two parsed dates
ValidationOf(address, birthday_str, b, s) ==
    [errors |-> (IF address = <<>> THEN <<"Please enter an address">> ELSE <<>>)
                \o (IF birthday_str = <<>>
                    THEN <<"Please enter your child's birthday">> ELSE <<>>)
                \o b.errors \o s.errors
                \o (IF BirthdayAfterStart(b.value, s.value)
                    THEN <<"Birthday cannot be after the start date">> ELSE <<>>),
     address |-> address,
     birthday_str |-> birthday_str,
     start_date_str |-> s.text,
     birthday |-> b.value,
     start_date |-> s.value]

ValidateFields(address, birthday_str, start_date_str, now) ==
    ValidationOf(address, birthday_str, BirthdayField(birthday_str),
                 StartDateField(start_date_str, now))

\* lines 189-221 on the form f
Validate(f, now) ==
    ValidateFields(Strip(Get(f, "address", <<>>)), Strip(Get(f, "birthday", <<>>)),
                   Strip(Get(f, "start_date", <<>>)), now)

\* render_template(name, ...): the page, with the context the template gets
FormPage(v, errs) ==
    [template |-> "index.html", errors |-> errs, address |-> v.address,
     birthday |-> v.birthday_str, start_date |-> v.start_date_str]

NotFoundPage == [template |-> "not-found.html"]

(***************************************************************************)
(* utils/geocoding.py.  What the Google client does for a call is an input *)
(* of the model: [kind |-> "no_key"] when get_maps_client raises,          *)
(* [kind |-> "error"] when client.geocode raises, else [kind |-> "ok",     *)
(* results], the list client.geocode returns.  A result holds the location *)
(* (Null if absent), the location_type ("" if absent) and the address      *)
(* components, each with its types and its long_name.                      *)
(***************************************************************************)
UpperSeq ==
    <<"A", "B", "C", "D", "E", "F", "G", "H", "I", "J", "K", "L", "M",
      "N", "O", "P", "Q", "R", "S", "T", "U", "V", "W", "X", "Y", "Z">>

LowerSeq ==
    <<"a", "b", "c", "d", "e", "f", "g", "h", "i", "j", "k", "l", "m",
      "n", "o", "p", "q", "r", "s", "t", "u", "v", "w", "x", "y", "z">>

LowerChar(c) ==
    IF c \in UpperLetters
    THEN LowerSeq[CHOOSE i \in 1..Len(UpperSeq) : UpperSeq[i] = c]
    ELSE c

\* s.lower()
Lower(s) == [k \in 1..Len(s) |-> LowerChar(s[k])]

TORONTO == <<"t", "o", "r", "o", "n", "t", "o">>

TORONTO_SUFFIX ==
    <<",", " ", "T", "o", "r", "o", "n", "t", "o", ",", " ", "O", "n", "t", "a",
      "r", "i", "o", ",", " ", "C", "a", "n", "a", "d", "a">>

\* lines 29-30: the address sent to the geocoder
GeocodeQuery(address) ==
    IF Contains(Lower(address), TORONTO) THEN address ELSE address \o TORONTO_SUFFIX

\* the location types line 49 accepts
PreciseTypes == {"ROOFTOP", "RANGE_INTERPOLATED"}

\* lines 57-63: a component of type locality names Toronto
IsToronto(components) ==
    \E k \in 1..Len(components) :
        /\ "locality" \in components[k].types
        /\ Contains(Lower(components[k].long_name), TORONTO)

\* has_street of a result that has no street-level component required
HasStreetAlways(components) == TRUE

\* lines 65-67: a component of type street_number or route
HasStreet(components) ==
    \E k \in 1..Len(components) :
        "street_number" \in components[k].types \/ "route" \in components[k].types

\* lines 39-73 on results[0]: the coordinate, or Null
GeocodeResult(result) ==
    IF result.location = Null THEN Null
    ELSE IF result.location_type \notin PreciseTypes THEN Null
    ELSE IF ~IsToronto(result.components) \/ ~HasStreet(result.components) THEN Null
    ELSE result.location

\* geocode_address given what the client does: the coordinate, or Null; no
\* exception leaves it (lines 74-75)
geocode_address(address, world) ==
    IF world.kind # "ok" THEN Null
    ELSE IF world.results = <<>> THEN Null
    ELSE GeocodeResult(world.results[1])

(***************************************************************************)
(* app.py: load_daycare_data.  The data directory is a list of files       *)
(* [name, rows], rows the rows pd.read_csv gives, Null when it cannot read *)
(* the file.  The rows of the supplementary file are records of LOC_ID and  *)
(* website, columns the frame has when each of its rows has them.          *)
(***************************************************************************)
DAYCARE_LIST ==
    <<"d", "a", "y", "c", "a", "r", "e", "_", "l", "i", "s", "t", "_">>

DOT_CSV == <<".", "c", "s", "v">>

StartsWith(s, prefix) == OccursAt(s, prefix, 1)

EndsWith(s, suffix) == OccursAt(s, suffix, Len(s) - Len(suffix) + 1)

\* the code point of a character of a file name
Ord(c) ==
    IF c \in Digits THEN 48 + DigitValue(c)
    ELSE IF c = "." THEN 46
    ELSE IF c = "_" THEN 95
    ELSE 96 + (CHOOSE i \in 1..Len(LowerSeq) : LowerSeq[i] = c)

\* a < b for two strings
StrLess(a, b) ==
    \E k \in 1..(Min(Len(a), Len(b)) + 1) :
        /\ \A j \in 1..(k - 1) : a[j] = b[j]
        /\ \/ k > Len(a) /\ k <= Len(b)
           \/ k <= Len(a) /\ k <= Len(b) /\ Ord(a[k]) < Ord(b[k])

\* line 38: f.startswith("daycare_list_") and f.endswith(".csv")
IsDatasetName(name) == StartsWith(name, DAYCARE_LIST) /\ EndsWith(name, DOT_CSV)

\* lines 36-39: the places in the listing of the dataset files
DatasetFiles(listing) == {k \in 1..Len(listing) : IsDatasetName(listing[k].name)}

\* lines 43-44: the file whose name is the greatest
LatestFile(listing, ks) ==
    listing[CHOOSE k \in ks : \A j \in ks : j = k \/ StrLess(listing[j].name, listing[k].name)]

\* line 46: pd.read_csv
ReadCsv(file) == IF file.rows = Null THEN Failed("ParserError") ELSE Returned(file.rows.some)

\* line 23: the name of the supplementary file
SUPPLEMENTARY_FILE ==
    <<"d", "a", "y", "c", "a", "r", "e", "_", "s", "u", "p", "p", "l", "e", "m", "e", "n",
      "t", "a", "r", "y", ".", "c", "s", "v">>

\* lines 26-30: the rows of the supplementary file, none when there is no
\* such file, or the exception of pd.read_csv
load_supplementary_data(listing) ==
    IF \E k \in 1..Len(listing) : listing[k].name = SUPPLEMENTARY_FILE
    THEN ReadCsv(listing[CHOOSE k \in 1..Len(listing) : listing[k].name = SUPPLEMENTARY_FILE])
    ELSE Returned(<<>>)

\* the frame has the column LOC_ID
HasKeyColumn(rows) == \A k \in 1..Len(rows) : "LOC_ID" \in DOMAIN rows[k]

\* the rows a left merge gives for one row of the dataset: one for each
\* supplementary row of its LOC_ID (a missing LOC_ID matching a missing one),
\* in their order, or the row with the added columns empty
MergedRows(row, matching, columns) ==
    IF matching = <<>> THEN <<row @@ [c \in columns |-> Null]>>
    ELSE [k \in 1..Len(matching) |-> row @@ [c \in columns |-> matching[k][c]]]

\* the rows of df.merge(supplementary, on="LOC_ID", how="left") from row i on
RECURSIVE MergeFrom(_, _, _)
MergeFrom(rows, supplementary, i) ==
    IF i > Len(rows) THEN <<>>
    ELSE MergedRows(rows[i],
                    SelectSeq(supplementary, LAMBDA x : x.LOC_ID = rows[i].LOC_ID),
                    DOMAIN supplementary[1] \ {"LOC_ID"})
         \o MergeFrom(rows, supplementary, i + 1)

\* lines 49-51, given the rows of the dataset and the outcome of
\* load_supplementary_data: no merge with an empty frame, a KeyError when a
\* frame lacks the column LOC_ID
MergeSupplementary(rows, supplementary) ==
    IF supplementary.raised THEN supplementary
    ELSE IF supplementary.value = <<>> THEN Returned(rows)
    ELSE IF ~HasKeyColumn(rows) \/ ~HasKeyColumn(supplementary.value)
    THEN Failed("KeyError")
    ELSE Returned(MergeFrom(rows, supplementary.value, 1))

\* lines 46-53, given the outcome of pd.read_csv on the latest file
LoadAfterRead(read, listing) ==
    IF read.raised THEN read
    ELSE MergeSupplementary(read.value, load_supplementary_data(listing))

\* load_daycare_data on a directory listing: the rows, or the exception
load_daycare_data(listing) ==
    IF DatasetFiles(listing) = {} THEN Failed("FileNotFoundError")
    ELSE LoadAfterRead(ReadCsv(LatestFile(listing, DatasetFiles(listing))), listing)

(***************************************************************************)
(* utils/travel_time.py.  What the Google client does is an input of the   *)
(* model: has_key tells whether get_maps_client gets its key, and for each *)
(* mode there is one response per batch: [kind |-> "raise"] when           *)
(* distance_matrix raises, [kind |-> "no_rows"] for a response without     *)
(* rows[0].elements, else [kind |-> "ok", elements]; an element holds its  *)
(* status and its duration text, each Null when the key is absent.         *)
(***************************************************************************)
\* batch_size of get_travel_times_for_mode
BATCH_SIZE == 25

\* n times "N/A"
NAs(n) == [k \in 1..n |-> NA]

\* lines 39-46: the loop over the elements from element i on, acc the times
\* appended so far; a KeyError ends it with one "N/A" more for each
\* destination of the batch
RECURSIVE ScanElements(_, _, _, _)
ScanElements(elements, i, acc, batch_len) ==
    IF i > Len(elements) THEN acc
    ELSE IF elements[i].status = Null THEN acc \o NAs(batch_len)
    ELSE IF elements[i].status.some # "OK"
    THEN ScanElements(elements, i + 1, Append(acc, NA), batch_len)
    ELSE IF elements[i].text = Null THEN acc \o NAs(batch_len)
    ELSE ScanElements(elements, i + 1, Append(acc, elements[i].text.some), batch_len)

\* lines 31-46: the times one batch adds
BatchTimes(response, batch_len) ==
    IF response.kind = "ok" THEN ScanElements(response.elements, 1, <<>>, batch_len)
    ELSE NAs(batch_len)

\* lines 28-48 from batch b on (batches count from 0), n the number of
\* destinations
RECURSIVE ModeTimes(_, _, _, _)
ModeTimes(n, responses, b, acc) ==
    IF b * BATCH_SIZE >= n THEN acc
    ELSE ModeTimes(n, responses, b + 1,
                   acc \o BatchTimes(responses[b + 1],
                                     Min(BATCH_SIZE, n - b * BATCH_SIZE)))

get_travel_times_for_mode(n, responses) == ModeTimes(n, responses, 0, <<>>)

\* lines 69-79: one dict for each destination; a list shorter than the
\* destinations gives an IndexError
ZipTimes(n, walk, transit, drive) ==
    IF Len(walk) < n \/ Len(transit) < n \/ Len(drive) < n THEN Failed("IndexError")
    ELSE Returned([i \in 1..n |->
                     [walk |-> walk[i], transit |-> transit[i], drive |-> drive[i]]])

\* get_all_travel_times(origin, destinations), given what the client does
get_all_travel_times(destinations, world) ==
    IF destinations = <<>> THEN Returned(<<>>)
    ELSE IF ~world.has_key THEN Failed("ValueError")
    ELSE ZipTimes(Len(destinations),
                  get_travel_times_for_mode(Len(destinations), world.walking),
                  get_travel_times_for_mode(Len(destinations), world.transit),
                  get_travel_times_for_mode(Len(destinations), world.driving))

(***************************************************************************)
(* app.py: index, from the geocoder's answer on (lines 229-276).           *)
(***************************************************************************)
\* line 241: the number of results that get travel times
TRAVEL_LIMIT == 20

\* "for r in results": the coordinates of every result, the cap left out
DestinationsUncapped(list, travel_limit) ==
    [i \in 1..Len(list) |-> <<list[i].lat, list[i].lon>>]

\* line 242: the coordinates of the first travel_limit results
Destinations(list, travel_limit) ==
    [i \in 1..travel_limit |-> <<list[i].lat, list[i].lon>>]

\* lines 244-246: the results with the times of the first travel_limit set
WithTravelTimes(list, travel_times, travel_limit) ==
    [i \in 1..Len(list) |->
        IF i <= travel_limit
        THEN [walk_time |-> Some(travel_times[i].walk),
              drive_time |-> Some(travel_times[i].drive)] @@ list[i]
        ELSE list[i]]

\* lines 243-246, given the outcome of get_all_travel_times
AnnotateWith(list, times, travel_limit) ==
    IF times.raised THEN times
    ELSE IF Len(times.value) < travel_limit THEN Failed("IndexError")
    ELSE Returned(WithTravelTimes(list, times.value, travel_limit))

\* "except FileNotFoundError": only the missing dataset handled
CaughtBySearchFileOnly(exc) == exc = "FileNotFoundError"

\* line 250: except Exception
CaughtBySearch(exc) == TRUE

\* line 251: the message of the search error, str(e) cut down to the type of
\* the exception
SearchErrorText(exc) ==
    CASE exc = "FileNotFoundError" -> "Error searching daycares: FileNotFoundError"
      [] exc = "ParserError" -> "Error searching daycares: ParserError"
      [] exc = "ValueError" -> "Error searching daycares: ValueError"
      [] exc = "IndexError" -> "Error searching daycares: IndexError"
      [] exc = "KeyError" -> "Error searching daycares: KeyError"
      [] OTHER -> "Error searching daycares: Exception"

\* an exception that leaves the handler: no page
Unhandled(exc) == [template |-> "unhandled exception", exc |-> exc]

\* lines 250-255 for an exception raised in the try block
SearchFailure(v, exc) ==
    IF CaughtBySearch(exc) THEN FormPage(v, v.errors \o <<SearchErrorText(exc)>>)
    ELSE Unhandled(exc)

\* lines 257-276: the results page; of the context the display strings are
\* left out but for the age, kept as its number of months
ResultsPage(v, coords, list, statistics) ==
    [template |-> "results.html", results |-> list, address |-> v.address,
     age_months |-> calculate_age_in_months(v.birthday.some, v.start_date.some),
     radius_km |-> SEARCH_RADIUS_KM, user_lat |-> coords[1], user_lon |-> coords[2],
     stats |-> statistics]

(***************************************************************************)
(* Defaults of the variables an operation does not use.                    *)
(***************************************************************************)
NoCall == [raised |-> FALSE, value |-> Null, exc |-> ""]

AgeIdle ==
    /\ birthday = Null /\ reference = Null
    /\ age_months = Null /\ age_group = Null

SearchIdle == df = <<>> /\ user = Null /\ found = NoCall

StatsIdle == results = <<>> /\ stats = NoCall

WalkIdle == walk_str = Null /\ walk_out = NoCall

ageVars == <<birthday, reference, age_months, age_group>>

searchVars == <<df, user, found>>

statsVars == <<results, stats>>

walkVars == <<walk_str, walk_out>>

ShortlistIdle == payload = Null /\ reply = Null /\ mail_calls = <<>>

RequestIdle ==
    form = Null /\ today = Null /\ errors = <<>> /\ page = Null /\ calls = <<>>

shortlistVars == <<payload, reply, mail_calls>>

requestVars == <<form, today, errors, page, calls>>

(***************************************************************************)
(* The age classifier applied to a birth date and a reference date.        *)
(***************************************************************************)
DayChoices == {1, 15, 28, 29, 30, 31}

BirthDates ==
    {dt \in [y : 2018..(2018 + YearSpan), m : 1..12, d : DayChoices] : IsDate(dt)}

RefDates ==
    {Date(2024, 2, 29), Date(2025, 2, 28), Date(2025, 3, 15), Date(2025, 8, 31),
     Date(2025, 12, 1)}

InitAge ==
    /\ op = "get_age_group"
    /\ pc = "start"
    /\ birthday \in BirthDates
    /\ reference \in RefDates
    /\ age_months = Null
    /\ age_group = Null
    /\ SearchIdle /\ StatsIdle /\ WalkIdle /\ ShortlistIdle /\ RequestIdle

\* get_age_group(birthday, reference_date), with the month count it computes
ClassifyAge ==
    /\ op = "get_age_group"
    /\ pc = "start"
    /\ age_months' = Some(calculate_age_in_months(birthday, reference))
    /\ age_group' = Some(get_age_group(birthday, reference))
    /\ pc' = "done"
    /\ UNCHANGED <<op, birthday, reference, searchVars, statsVars, walkVars,
                 shortlistVars, requestVars>>

NextAge == ClassifyAge

SpecAge == InitAge /\ [][NextAge]_vars

(***************************************************************************)
(* A search: find_nearby_daycares on a dataset, a user coordinate, a birth *)
(* date and a start date.                                                  *)
(***************************************************************************)
ColumnOrder == <<"IGSPACE", "TGSPACE", "PGSPACE", "KGSPACE", "SGSPACE">>

\* the capacity values a column takes: NaN, zero, negative and positive
CapCycle == <<Some(2), Null, Some(0), Some(1), Some(0 - 1)>>

\* capacity vector k: column j holds CapCycle[j + k], cyclically
CapVector(k) ==
    [j \in 1..Len(ColumnOrder) |-> CapCycle[((j - 1 + k) % Len(CapCycle)) + 1]]

\* latitudes (metres of arc) of the facilities and of the user
FacilityLats == {0, 4, 5000, 5010}

UserLats == {0, 9}

Geometries == {Point(lat) : lat \in FacilityLats} \cup {BadJson}

\* a dataset row but for its LOC_ID
RowBodies ==
    {[geometry |-> g, IGSPACE |-> v[1], TGSPACE |-> v[2], PGSPACE |-> v[3],
      KGSPACE |-> v[4], SGSPACE |-> v[5], TOTSPACE |-> Some(10),
      subsidy |-> "N", cwelcc_flag |-> "Y"] :
        g \in Geometries, v \in {CapVector(k) : k \in 0..2}}

WithLocId(body, id) ==
    [LOC_ID |-> Some(id), geometry |-> body.geometry, IGSPACE |-> body.IGSPACE,
     TGSPACE |-> body.TGSPACE, PGSPACE |-> body.PGSPACE, KGSPACE |-> body.KGSPACE,
     SGSPACE |-> body.SGSPACE, TOTSPACE |-> body.TOTSPACE, subsidy |-> body.subsidy,
     cwelcc_flag |-> body.cwelcc_flag]

\* a dataset of the given row bodies, the LOC_ID of a row its place in the file
Dataset(bodies) == [i \in 1..Len(bodies) |-> WithLocId(bodies[i], i)]

\* (birth date, start date) of the searches: 0, 18 and 72 elapsed months
SearchDates ==
    {<<Date(2025, 8, 20), Date(2025, 9, 2)>>,
     <<Date(2024, 3, 2), Date(2025, 9, 2)>>,
     <<Date(2019, 9, 2), Date(2025, 9, 2)>>}

InitSearch ==
    /\ op = "find_nearby_daycares"
    /\ pc = "start"
    /\ df = <<>>
    /\ user \in {Some(<<lat, MeridianLon>>) : lat \in UserLats}
    /\ \E bs \in SearchDates : birthday = bs[1] /\ reference = bs[2]
    /\ age_months = Null
    /\ age_group = Null
    /\ found = NoCall
    /\ StatsIdle /\ WalkIdle /\ ShortlistIdle /\ RequestIdle

\* df = load_daycare_data(), the dataset file as it is when the request reads
\* it (up to MaxRows rows), then results = find_nearby_daycares(user_lat, user_lon, birthday, df,
\* start_date)
Search ==
    /\ op = "find_nearby_daycares"
    /\ pc = "start"
    /\ \E n \in 0..MaxRows : \E bodies \in [1..n -> RowBodies] :
          /\ df' = Dataset(bodies)
          /\ found' = find_nearby_daycares(user.some[1], user.some[2], birthday,
                                           Dataset(bodies), reference)
    /\ pc' = "done"
    /\ UNCHANGED <<op, ageVars, user, statsVars, walkVars,
                 shortlistVars, requestVars>>

NextSearch == Search

SpecSearch == InitSearch /\ [][NextSearch]_vars

(***************************************************************************)
(* calculate_stats applied to a result list.  A result carries the fields  *)
(* calculate_stats reads: cwelcc, subsidy, capacity and, once annotated,   *)
(* walk_time.                                                              *)
(***************************************************************************)
Str15Mins == <<"1", "5", " ", "m", "i", "n", "s">>

Str16Mins == <<"1", "6", " ", "m", "i", "n", "s">>

ResultKinds ==
    {[cwelcc |-> c, subsidy |-> b, capacity |-> n] :
        c \in BOOLEAN, b \in BOOLEAN, n \in {1, 2}}
    \cup {[cwelcc |-> TRUE, subsidy |-> FALSE, capacity |-> 1, walk_time |-> Some(w)] :
            w \in {NA, Str15Mins, Str16Mins}}

\* the lengths of the long lists: with 8 results a percentage can be a half
\* that floats hold (1 of 8 is 12.5), with 40 one they do not (23 of 40)
LongTotals == {8, 40}

\* n results, the first c with the cwelcc flag, the others with the subsidy
FlagList(n, c) ==
    [k \in 1..n |-> [cwelcc |-> k <= c, subsidy |-> k > c, capacity |-> 1]]

InitStats ==
    /\ op = "calculate_stats"
    /\ pc = "start"
    /\ results = <<>>
    /\ stats = NoCall
    /\ AgeIdle /\ SearchIdle /\ WalkIdle /\ ShortlistIdle /\ RequestIdle

\* stats = calculate_stats(results), on a list of up to MaxResults results
\* or on a long list
CalculateStats ==
    /\ op = "calculate_stats"
    /\ pc = "start"
    /\ \/ \E n \in 0..MaxResults : \E list \in [1..n -> ResultKinds] :
             /\ results' = list
             /\ stats' = calculate_stats(list)
       \/ \E n \in LongTotals : \E c \in 0..n :
             /\ results' = FlagList(n, c)
             /\ stats' = calculate_stats(FlagList(n, c))
    /\ pc' = "done"
    /\ UNCHANGED <<op, ageVars, searchVars, walkVars,
                 shortlistVars, requestVars>>

NextStats == CalculateStats

SpecStats == InitStats /\ [][NextStats]_vars

(***************************************************************************)
(* parse_walk_time applied to None or to a string made of up to MaxTokens  *)
(* tokens.                                                                 *)
(***************************************************************************)
WalkTokens ==
    {<<"1", " ">>, <<"1", "5", " ">>, <<"5", " ">>, <<"5">>, <<"0", " ">>,
     <<"-", "5", " ">>, <<"h", "o", "u", "r", " ">>, <<"h", "o", "u", "r", "s", " ">>,
     <<"m", "i", "n">>, <<"m", "i", "n", "s">>, <<"N", "/", "A">>, <<"x", " ">>}

RECURSIVE Flatten(_)
Flatten(tokens) ==
    IF tokens = <<>> THEN <<>> ELSE tokens[1] \o Flatten(Tail(tokens))

InitWalk ==
    /\ op = "parse_walk_time"
    /\ pc = "start"
    /\ walk_str = Null
    /\ walk_out = NoCall
    /\ AgeIdle /\ SearchIdle /\ StatsIdle /\ ShortlistIdle /\ RequestIdle

\* parse_walk_time(None)
ParseAbsentWalkTime ==
    /\ op = "parse_walk_time"
    /\ pc = "start"
    /\ walk_str' = Null
    /\ walk_out' = parse_walk_time(Null)
    /\ pc' = "done"
    /\ UNCHANGED <<op, ageVars, searchVars, statsVars,
                 shortlistVars, requestVars>>

\* parse_walk_time(s) for a string s
ParseWalkTime ==
    /\ op = "parse_walk_time"
    /\ pc = "start"
    /\ \E n \in 0..MaxTokens : \E tokens \in [1..n -> WalkTokens] :
          /\ walk_str' = Some(Flatten(tokens))
          /\ walk_out' = parse_walk_time(Some(Flatten(tokens)))
    /\ pc' = "done"
    /\ UNCHANGED <<op, ageVars, searchVars, statsVars,
                 shortlistVars, requestVars>>

NextWalk == ParseAbsentWalkTime \/ ParseWalkTime

SpecWalk == InitWalk /\ [][NextWalk]_vars

(***************************************************************************)
(* A shortlist request: send_shortlist on a JSON body whose email is made  *)
(* of up to MaxEmailTokens tokens.                                         *)
(***************************************************************************)
EmailTokens ==
    {<<"a", "@">>, <<"b", ".">>, <<"b", ".", "c", "o">>, <<"c", "o">>, <<"c">>,
     <<"@">>, <<".">>, <<" ">>,
     <<"n", "o", "t", "-", "a", "n", "-", "e", "m", "a", "i", "l">>,
     <<"x", "1", "_", "%", "+", "-">>, <<"!">>}

\* the entries of a shortlist, by name
Daycare(name) == [name |-> name]

DaycareLists == {<<>>, <<Daycare("A")>>, <<Daycare("B"), Daycare("A")>>}

QUEEN_ST == <<"1", " ", "Q", "u", "e", "e", "n", " ", "S", "t">>

\* the dicts with the given email: every choice of the other two keys
BodiesWith(email) ==
    {[email |-> email]}
    \cup {[email |-> email, daycares |-> d] : d \in DaycareLists}
    \cup {[email |-> email, daycares |-> d, searchAddress |-> QUEEN_ST] :
            d \in DaycareLists}

\* the dicts without an email
BodiesWithout ==
    {<<>>} \cup {[daycares |-> d] : d \in DaycareLists}

InitShortlist ==
    /\ op = "send_shortlist"
    /\ pc = "start"
    /\ payload = Null
    /\ reply = Null
    /\ mail_calls = <<>>
    /\ AgeIdle /\ SearchIdle /\ StatsIdle /\ WalkIdle /\ RequestIdle

\* the effect of send_shortlist on the body data
Shortlisted(data, success) ==
    /\ payload' = data
    /\ reply' = Some(send_shortlist(data, success).reply)
    /\ mail_calls' = mail_calls \o send_shortlist(data, success).calls
    /\ pc' = "done"
    /\ UNCHANGED <<op, ageVars, searchVars, statsVars, walkVars, requestVars>>

\* a request with no JSON body, or with a dict that has no email
PostWithoutEmail ==
    /\ op = "send_shortlist"
    /\ pc = "start"
    /\ \E data \in {Null} \cup {Some(b) : b \in BodiesWithout} : \E success \in BOOLEAN :
          Shortlisted(data, success)

\* a request whose dict has an email
PostShortlist ==
    /\ op = "send_shortlist"
    /\ pc = "start"
    /\ \E n \in 0..MaxEmailTokens : \E tokens \in [1..n -> EmailTokens] :
          \E b \in BodiesWith(Flatten(tokens)) : \E success \in BOOLEAN :
              Shortlisted(Some(b), success)

NextShortlist == PostWithoutEmail \/ PostShortlist

SpecShortlist == InitShortlist /\ [][NextShortlist]_vars

(***************************************************************************)
(* A search request: a POST to index, step by step.  The form, the date of *)
(* the day, and what the geocoder, the data directory and the distance     *)
(* matrix give are the inputs.                                             *)
(***************************************************************************)
AddressChoices ==
    {Null, Some(<<" ">>), Some(QUEEN_ST),
     Some(<<" ">> \o QUEEN_ST \o <<",", " ", "T", "O", "R", "O", "N", "T", "O", " ">>)}

BirthdayChoices ==
    {Null,
     Some(<<"2", "0", "2", "5", "-", "0", "8", "-", "2", "0">>),
     Some(<<" ", "2", "0", "2", "4", "-", "3", "-", "2", " ">>),
     Some(<<"2", "0", "2", "5", "-", "0", "9", "-", "0", "3">>),
     Some(<<"2", "0", "2", "5", "-", "0", "2", "-", "3", "0">>),
     Some(<<"2", "0", "/", "0", "8", "/", "2", "0", "2", "5">>)}

StartDateChoices ==
    {Null,
     Some(<<"2", "0", "2", "5", "-", "0", "9", "-", "0", "2">>),
     Some(<<"2", "0", "2", "5", "-", "0", "9", "-", "3", "1">>),
     Some(<<"s", "o", "o", "n">>)}

TodayChoices == {Date(2025, 9, 2), Date(2025, 10, 1)}

\* the form with the fields that are not Null
FormOf(a, b, s) ==
    [k \in {key \in {"address", "birthday", "start_date"} :
              [address |-> a, birthday |-> b, start_date |-> s][key] # Null}
        |-> [address |-> a, birthday |-> b, start_date |-> s][k].some]

Forms ==
    {FormOf(a, b, s) : a \in AddressChoices, b \in BirthdayChoices, s \in StartDateChoices}

Component(types, long_name) == [types |-> types, long_name |-> long_name]

Street == Component({"street_number"}, <<"1">>)

QueenRoute == Component({"route"}, <<"Q", "u", "e", "e", "n">>)

TorontoRoute == Component({"route"}, <<"T", "o", "r", "o", "n", "t", "o">>)

Locality(long_name) == Component({"locality", "political"}, long_name)

OldToronto == Locality(<<"O", "l", "d", " ", "T", "o", "r", "o", "n", "t", "o">>)

Ottawa == Locality(<<"O", "t", "t", "a", "w", "a">>)

GeocodeHit(location, location_type, components) ==
    [location |-> location, location_type |-> location_type, components |-> components]

\* first results of the geocoder that geocode_address turns down
GeocodeMisses(at) ==
    {GeocodeHit(Null, "ROOFTOP", <<Street, QueenRoute, OldToronto>>),
     GeocodeHit(Some(at), "APPROXIMATE", <<Street, QueenRoute, OldToronto>>),
     GeocodeHit(Some(at), "", <<Street, QueenRoute, OldToronto>>),
     GeocodeHit(Some(at), "ROOFTOP", <<Street, QueenRoute, Ottawa>>),
     GeocodeHit(Some(at), "ROOFTOP", <<Street, TorontoRoute>>),
     GeocodeHit(Some(at), "ROOFTOP", <<OldToronto>>),
     GeocodeHit(Some(at), "ROOFTOP", <<>>)}

\* first results it accepts, one for each coordinate of UserLats
GeocodeHits ==
    {GeocodeHit(Some(<<0, MeridianLon>>), "ROOFTOP", <<Street, QueenRoute, OldToronto>>),
     GeocodeHit(Some(<<6, MeridianLon>>), "RANGE_INTERPOLATED", <<OldToronto, QueenRoute>>)}

GeocodeWorlds ==
    {[kind |-> "no_key", results |-> <<>>], [kind |-> "error", results |-> <<>>],
     [kind |-> "ok", results |-> <<>>]}
    \cup {[kind |-> "ok", results |-> <<hit>>] :
            hit \in GeocodeMisses(<<0, MeridianLon>>) \cup GeocodeHits}

\* row i of the dataset of a kind, but for its LOC_ID
FacilityRow(kind, i) ==
    [geometry |->
        IF kind = "mixed" /\ i % 3 = 0 THEN Point(9000)
        ELSE IF kind = "bad_point" /\ i = 2
        THEN [json |-> "object", type |-> Some("Point"), coordinates |-> <<MeridianLon>>]
        ELSE IF kind = "bad_point" /\ i = 1 THEN BadJson
        ELSE Point(((i * 7) % 10) * 500),
     IGSPACE |-> IF kind = "mixed" /\ i % 3 = 1 THEN Null ELSE Some(1 + (i % 2)),
     TGSPACE |-> IF kind = "mixed" /\ i % 3 = 1 THEN Null ELSE Some(1 + (i % 2)),
     PGSPACE |-> Some(0),
     KGSPACE |-> Some(3),
     SGSPACE |-> IF kind = "mixed" /\ i % 3 = 1 THEN Null ELSE Some(1 + (i % 2)),
     TOTSPACE |-> IF kind = "no_total" /\ i = 1 THEN Null ELSE Some(10 + i),
     subsidy |-> IF i % 2 = 0 THEN "Y" ELSE "N",
     cwelcc_flag |-> IF i % 3 = 0 THEN "Y" ELSE "N"]

Facilities(kind, n) == Dataset([i \in 1..n |-> FacilityRow(kind, i)])

File(name, rows) == [name |-> name, rows |-> rows]

OlderFile == File(DAYCARE_LIST \o <<"1">> \o DOT_CSV, Some(Facilities("near", 1)))

SupplementaryFile == File(SUPPLEMENTARY_FILE, Some(<<>>))

TextFile == File(DAYCARE_LIST \o <<"3", ".", "t", "x", "t">>, Some(<<>>))

\* a directory whose latest dataset file has the given rows
ListingOf(rows) ==
    <<OlderFile, File(DAYCARE_LIST \o <<"2">> \o DOT_CSV, rows), SupplementaryFile,
      TextFile>>

SupplementaryRow(id, website) == [LOC_ID |-> id, website |-> website]

\* the supplementary files: unreadable, a row for the first facility and one
\* for no facility, two rows for the first facility, rows without LOC_ID
SupplementaryFiles ==
    {File(SUPPLEMENTARY_FILE, Null),
     File(SUPPLEMENTARY_FILE,
          Some(<<SupplementaryRow(Some(1), Some("https://one.example")),
                 SupplementaryRow(Some(99), Null)>>)),
     File(SUPPLEMENTARY_FILE,
          Some(<<SupplementaryRow(Some(1), Some("https://one.example")),
                 SupplementaryRow(Some(1), Some("https://other.example"))>>)),
     File(SUPPLEMENTARY_FILE, Some(<<[website |-> Some("https://one.example")]>>))}

\* a directory whose latest dataset file has the given rows, with the given
\* files beside it
ListingWith(rows, files) ==
    <<OlderFile, File(DAYCARE_LIST \o <<"2">> \o DOT_CSV, rows)>> \o files

\* the files beside the dataset: no supplementary file, or one of them
FilesBeside == {<<TextFile>>} \cup {<<f, TextFile>> : f \in SupplementaryFiles}

\* the directories without a dataset file, and one whose file is unreadable
BrokenListings == {<<>>, <<SupplementaryFile, TextFile>>, ListingOf(Null)}

Str65Mins == <<"1", " ", "h", "o", "u", "r", " ", "5", " ", "m", "i", "n", "s">>

Str5Mins == <<"5", " ", "m", "i", "n", "s">>

\* a duration text whose number does not read
StrXMins == <<"x", " ", "m", "i", "n", "s">>

\* the duration texts of the walking responses, taken in turn
WalkTexts == <<Str15Mins, Str16Mins, Str65Mins, Str5Mins, StrXMins>>

Element(status, text) == [status |-> status, text |-> text]

OkElement(i, shift) == Element(Some("OK"), Some(WalkTexts[((i + shift) % Len(WalkTexts)) + 1]))

ElementKinds == {"ok", "partial", "short", "long", "no_status", "no_duration"}

\* the elements of a response of a kind to n destinations
ElementsOf(kind, n, shift) ==
    [i \in 1..(IF kind = "short" THEN n - 1 ELSE IF kind = "long" THEN n + 1 ELSE n) |->
        IF kind = "partial" /\ i % 3 = 0 THEN Element(Some("ZERO_RESULTS"), Null)
        ELSE IF kind = "no_status" /\ i = Min(2, n) THEN Element(Null, Null)
        ELSE IF kind = "no_duration" /\ i = 1 THEN Element(Some("OK"), Null)
        ELSE OkElement(i, shift)]

Response(kind, elements) == [kind |-> kind, elements |-> elements]

\* what distance_matrix does for the walking mode, for n destinations
WalkResponses(n) ==
    {Response("raise", <<>>), Response("no_rows", <<>>),
     Response("ok", ElementsOf("ok", n, 1))}
    \cup {Response("ok", ElementsOf(kind, n, 0)) : kind \in ElementKinds}

OkResponse(n) == Response("ok", ElementsOf("ok", n, 0))

\* the client of a request that got its coordinate from the geocoder has
\* its key; each mode is asked for one batch
TravelWorld(walking, transit, driving) ==
    [has_key |-> TRUE, walking |-> <<walking>>, transit |-> <<transit>>,
     driving |-> <<driving>>]

\* what distance_matrix does for the three modes, for n destinations
TravelWorlds(n) ==
    {TravelWorld(w, OkResponse(n), OkResponse(n)) : w \in WalkResponses(n)}
    \cup {TravelWorld(OkResponse(n), Response("ok", ElementsOf("short", n, 0)),
                      OkResponse(n)),
          TravelWorld(OkResponse(n), OkResponse(n), Response("raise", <<>>))}

InitRequest ==
    /\ op = "index"
    /\ pc = "start"
    /\ form \in {Some(f) : f \in Forms}
    /\ today \in {Some(d) : d \in TodayChoices}
    /\ errors = <<>>
    /\ page = Null
    /\ calls = <<>>
    /\ AgeIdle /\ SearchIdle /\ StatsIdle /\ WalkIdle /\ ShortlistIdle

Call(fn, arg) == [fn |-> fn, arg |-> arg]

\* a call answered by the Google client, with what the client did
Answered(fn, arg, world) == [fn |-> fn, arg |-> arg, answer |-> world]

\* the validation of the form of the request
Validated == Validate(form.some, today.some)

DateOrNull(x) == IF x = Null THEN Null ELSE x.some

\* lines 189-227, given the validation
SubmitWith(v) ==
    /\ errors' = v.errors
    /\ birthday' = DateOrNull(v.birthday)
    /\ reference' = DateOrNull(v.start_date)
    /\ page' = IF v.errors # <<>> THEN Some(FormPage(v, v.errors)) ELSE Null
    /\ pc' = IF v.errors # <<>> THEN "done" ELSE "geocode"
    /\ UNCHANGED <<op, age_months, age_group, searchVars, statsVars, walkVars,
                   shortlistVars, form, today, calls>>

\* lines 188-227: the form read and validated
Submit ==
    /\ op = "index"
    /\ pc = "start"
    /\ SubmitWith(Validated)

\* the exception exc raised in the try block
FailSearch(exc) ==
    /\ errors' = errors \o (IF CaughtBySearch(exc) THEN <<SearchErrorText(exc)>> ELSE <<>>)
    /\ page' = Some(SearchFailure(Validated, exc))
    /\ pc' = "done"

\* lines 229-233, given the address and the coordinate geocode_address returns
GeocodeWith(world, address, coords) ==
    /\ calls' = calls \o <<Call("geocode_address", address)>>
                      \o (IF world.kind = "no_key" THEN <<>>
                          ELSE <<Answered("client.geocode", GeocodeQuery(address), world)>>)
    /\ user' = coords
    /\ page' = IF coords = Null THEN Some(NotFoundPage) ELSE Null
    /\ pc' = IF coords = Null THEN "done" ELSE "load"
    /\ UNCHANGED <<op, ageVars, df, found, statsVars, walkVars, shortlistVars,
                   form, today, errors>>

\* lines 229-233: coords = geocode_address(address)
Geocode ==
    /\ op = "index"
    /\ pc = "geocode"
    /\ \E world \in GeocodeWorlds :
          GeocodeWith(world, Validated.address, geocode_address(Validated.address, world))

\* line 236, given the outcome of load_daycare_data
LoadWith(loaded) ==
    /\ calls' = calls \o <<Call("load_daycare_data", <<>>)>>
    /\ IF loaded.raised
       THEN FailSearch(loaded.exc) /\ df' = df
       ELSE df' = loaded.value /\ pc' = "find" /\ UNCHANGED <<errors, page>>
    /\ UNCHANGED <<op, ageVars, user, found, statsVars, walkVars, shortlistVars,
                   form, today>>

\* line 236: df = load_daycare_data()
LoadData ==
    /\ op = "index"
    /\ pc = "load"
    /\ \/ \E listing \in BrokenListings : LoadWith(load_daycare_data(listing))
       \/ \E n \in 0..MaxFacilities :
             LoadWith(load_daycare_data(ListingOf(Some(Facilities("near", n)))))
       \/ \E n \in 1..MaxRows : \E kind \in {"mixed", "bad_point", "no_total"} :
             LoadWith(load_daycare_data(ListingOf(Some(Facilities(kind, n)))))
       \/ \E n \in 1..MaxRows : \E files \in FilesBeside :
             LoadWith(load_daycare_data(ListingWith(Some(Facilities("near", n)), files)))

\* line 237, given the outcome of find_nearby_daycares
FindWith(outcome) ==
    /\ found' = outcome
    /\ IF outcome.raised
       THEN FailSearch(outcome.exc)
       ELSE pc' = "annotate" /\ UNCHANGED <<errors, page>>
    /\ UNCHANGED <<op, ageVars, df, user, statsVars, walkVars, shortlistVars,
                   form, today, calls>>

\* line 237: results = find_nearby_daycares(...)
FindDaycares ==
    /\ op = "index"
    /\ pc = "find"
    /\ FindWith(find_nearby_daycares(user.some[1], user.some[2], birthday, df, reference))

\* line 240 for an empty result list: no travel times asked for
SkipTravelTimes ==
    /\ op = "index"
    /\ pc = "annotate"
    /\ found.value = <<>>
    /\ results' = <<>>
    /\ pc' = "stats"
    /\ UNCHANGED <<op, ageVars, searchVars, stats, walkVars, shortlistVars,
                   form, today, errors, page, calls>>

\* lines 242-246, given the destinations and the outcome of the annotation
AnnotateResults(destinations, world, outcome) ==
    /\ calls' = calls \o <<Answered("get_all_travel_times", destinations, world)>>
    /\ IF outcome.raised
       THEN FailSearch(outcome.exc) /\ results' = results
       ELSE results' = outcome.value /\ pc' = "stats" /\ UNCHANGED <<errors, page>>
    /\ UNCHANGED <<op, ageVars, searchVars, stats, walkVars, shortlistVars,
                   form, today>>

\* lines 241-246 for the results list and travel_limit
TravelTimesFor(list, travel_limit) ==
    \E world \in TravelWorlds(travel_limit) :
        AnnotateResults(Destinations(list, travel_limit), world,
                        AnnotateWith(list,
                                     get_all_travel_times(Destinations(list, travel_limit),
                                                          world),
                                     travel_limit))

\* lines 240-246 for a non-empty result list
GetTravelTimes ==
    /\ op = "index"
    /\ pc = "annotate"
    /\ found.value # <<>>
    /\ TravelTimesFor(found.value, Min(TRAVEL_LIMIT, Len(found.value)))

\* lines 249-276, given the outcome of calculate_stats
RenderWith(outcome) ==
    /\ stats' = outcome
    /\ IF outcome.raised
       THEN FailSearch(outcome.exc)
       ELSE /\ page' = Some(ResultsPage(Validated, user.some, results, outcome.value))
            /\ pc' = "done"
            /\ errors' = errors
    /\ UNCHANGED <<op, ageVars, searchVars, results, walkVars, shortlistVars,
                   form, today, calls>>

\* lines 249-276: stats = calculate_stats(results), then the results page
Aggregate ==
    /\ op = "index"
    /\ pc = "stats"
    /\ RenderWith(calculate_stats(results))

NextRequest ==
    \/ Submit \/ Geocode \/ LoadData \/ FindDaycares \/ SkipTravelTimes
    \/ GetTravelTimes \/ Aggregate

SpecRequest == InitRequest /\ [][NextRequest]_vars

(***************************************************************************)
(* A search on rows as a file may hold them: geometries that do not        *)
(* decode, that lack the type tag, of another type, points with one or     *)
(* three coordinates, rows without capacity, a row without its total.      *)
(***************************************************************************)
NoTypeTag ==
    [json |-> "object", type |-> Null, coordinates |-> <<MeridianLon, 0>>]

Polygon ==
    [json |-> "object", type |-> Some("Polygon"), coordinates |-> <<MeridianLon, 0>>]

ShortPoint ==
    [json |-> "object", type |-> Some("Point"), coordinates |-> <<MeridianLon>>]

LongPoint ==
    [json |-> "object", type |-> Some("Point"), coordinates |-> <<MeridianLon, 0, 10>>]

RawGeometries ==
    {Point(0), Point(5010), BadJson, NoTypeTag, Polygon, ShortPoint, LongPoint}

RawRow(g, capacity, total) ==
    [geometry |-> g, IGSPACE |-> capacity, TGSPACE |-> capacity, PGSPACE |-> capacity,
     KGSPACE |-> capacity, SGSPACE |-> capacity, TOTSPACE |-> total,
     subsidy |-> "N", cwelcc_flag |-> "N"]

RawRowBodies ==
    {RawRow(g, capacity, Some(10)) : g \in RawGeometries, capacity \in {Some(1), Null}}
    \cup {RawRow(Point(0), Some(1), Null)}

InitRows ==
    /\ op = "find_nearby_daycares on raw rows"
    /\ pc = "start"
    /\ df = <<>>
    /\ user = Some(<<0, MeridianLon>>)
    /\ birthday = Date(2025, 8, 20)
    /\ reference = Date(2025, 9, 2)
    /\ age_months = Null
    /\ age_group = Null
    /\ found = NoCall
    /\ StatsIdle /\ WalkIdle /\ ShortlistIdle /\ RequestIdle

\* results = find_nearby_daycares(user_lat, user_lon, birthday, df, start_date)
\* on a dataset of up to MaxRows raw rows
SearchRows ==
    /\ op = "find_nearby_daycares on raw rows"
    /\ pc = "start"
    /\ \E n \in 0..MaxRows : \E bodies \in [1..n -> RawRowBodies] :
          /\ df' = Dataset(bodies)
          /\ found' = find_nearby_daycares(user.some[1], user.some[2], birthday,
                                           Dataset(bodies), reference)
    /\ pc' = "done"
    /\ UNCHANGED <<op, ageVars, user, statsVars, walkVars, shortlistVars, requestVars>>

NextRows == SearchRows

SpecRows == InitRows /\ [][NextRows]_vars

(***************************************************************************)
(* Any one of the operations.                                              *)
(***************************************************************************)
Init ==
    \/ InitAge \/ InitSearch \/ InitStats \/ InitWalk \/ InitShortlist
    \/ InitRequest \/ InitRows

Next ==
    \/ NextAge \/ NextSearch \/ NextStats \/ NextWalk \/ NextShortlist
    \/ NextRequest \/ NextRows

Spec == Init /\ [][Next]_vars

(***************************************************************************)
(* Claims about the age classifier.                                        *)
(***************************************************************************)
AgeDone == op = "get_age_group" /\ pc = "done"

\* the half-open month range [min, max) of a bracket, max absent for the last
InRange(g, m) ==
    /\ AGE_GROUPS[g].min_months <= m
    /\ (AGE_GROUPS[g].max_months = Null \/ m < AGE_GROUPS[g].max_months.some)

GroupNames == {GroupOrder[i] : i \in 1..Len(GroupOrder)}

\* whole calendar months from a to b (a <= b): the month difference, less one
\* when b's day of month falls before a's (a's day clipped to b's month)
ElapsedWholeMonths(a, b) ==
    (b.y - a.y) * 12 + (b.m - a.m)
        - (IF b.d < Min(a.d, DaysInMonth(b.y, b.m)) THEN 1 ELSE 0)

\* C1: the five brackets partition the non-negative month counts: every
\* month count m >= 0 the classifier computes lies in exactly one bracket's
\* range, and the ranges are the five fixed ones.
C1_BracketsPartition ==
    /\ [g \in GroupNames |-> <<AGE_GROUPS[g].min_months, AGE_GROUPS[g].max_months>>]
         = [infant |-> <<0, Some(18)>>, toddler |-> <<18, Some(30)>>,
            preschool |-> <<30, Some(48)>>, kindergarten |-> <<48, Some(72)>>,
            school_age |-> <<72, Null>>]
    /\ (AgeDone /\ age_months.some >= 0)
         => Cardinality({g \in GroupNames : InRange(g, age_months.some)}) = 1

C1_Witness ==
    AgeDone /\ age_months = Some(18) /\ age_group = Some("toddler")

\* C2: for a birth date not later than the reference date, get_age_group
\* returns the bracket whose range [min, max) contains the elapsed whole
\* months; 17 -> infant, 18 and 29 -> toddler, 30 and 47 -> preschool,
\* 48 and 71 -> kindergarten, 72 -> school_age.
C2_BracketOfElapsedMonths ==
    (AgeDone /\ DateLE(birthday, reference))
        => LET e == ElapsedWholeMonths(birthday, reference)
               g == age_group.some
           IN  /\ age_months = Some(e)
               /\ e >= 0
               /\ InRange(g, e)
               /\ (e = 17 => g = "infant")
               /\ (e \in {18, 29} => g = "toddler")
               /\ (e \in {30, 47} => g = "preschool")
               /\ (e \in {48, 71} => g = "kindergarten")
               /\ (e = 72 => g = "school_age")
               /\ (e >= 72 => g = "school_age")

C2_Witness ==
    /\ AgeDone /\ age_group = Some("kindergarten") /\ age_months = Some(71)
    /\ birthday.d > reference.d

(***************************************************************************)
(* Claims about find_nearby_daycares.                                      *)
(***************************************************************************)
SearchDone == op = "find_nearby_daycares" /\ pc = "done" /\ ~found.raised

\* the bracket of the child, from the elapsed months and the bracket ranges
ChildGroup ==
    CHOOSE g \in GroupNames : InRange(g, ElapsedWholeMonths(birthday, reference))

\* the capacity of dataset row i in the column of the child's bracket
SelectedCapacity(rows, i) == rows[i][AGE_GROUPS[ChildGroup].column]

HasCapacity(rows, i) ==
    SelectedCapacity(rows, i) # Null /\ SelectedCapacity(rows, i).some > 0

IsPointRow(rows, i) ==
    /\ rows[i].geometry.json = "object"
    /\ rows[i].geometry.type = Some("Point")
    /\ Len(rows[i].geometry.coordinates) = 2

\* metres between the user and the facility of row i (a point row)
RowDistance(rows, i) == Abs(rows[i].geometry.coordinates[2] - user.some[1])

Qualifies(rows, i, radius) ==
    IsPointRow(rows, i) /\ RowDistance(rows, i) <= radius /\ HasCapacity(rows, i)

IdsOf(list) == {list[k].loc_id : k \in 1..Len(list)}

FoundIds == IdsOf(found.value)

\* C3: no facility whose capacity in the selected bracket's column is null,
\* zero or negative is in the output of find_nearby_daycares, whatever its
\* distance; every returned record's capacity is the positive integer of that
\* column of its row.
C3_NoCapacityNeverReturned ==
    SearchDone =>
        /\ \A i \in 1..Len(df) : ~HasCapacity(df, i) => i \notin FoundIds
        /\ \A k \in 1..Len(found.value) :
              LET r == found.value[k]
              IN  /\ r.loc_id \in 1..Len(df)
                  /\ r.capacity > 0
                  /\ SelectedCapacity(df, r.loc_id) = Some(r.capacity)

C3_Witness ==
    /\ SearchDone
    /\ Len(found.value) = 1
    /\ \E i, j \in 1..Len(df) :
          /\ IsPointRow(df, i) /\ RowDistance(df, i) = 0
          /\ SelectedCapacity(df, i) = Null
          /\ IsPointRow(df, j) /\ RowDistance(df, j) = 0
          /\ SelectedCapacity(df, j) # Null /\ SelectedCapacity(df, j).some <= 0

\* C4: the 5 km radius is inclusive: a facility at exactly 5.00 km with
\* parsable geometry and positive capacity is returned, one farther than
\* 5.00 km (5.01 km) is not, and no returned record shows a distance_km
\* above 5.0.
C4_RadiusInclusive ==
    SearchDone =>
        /\ \A i \in 1..Len(df) :
              (IsPointRow(df, i) /\ HasCapacity(df, i) /\ RowDistance(df, i) = 5000)
                  => i \in FoundIds
        /\ \A i \in 1..Len(df) :
              (IsPointRow(df, i) /\ RowDistance(df, i) >= 5010) => i \notin FoundIds
        /\ \A k \in 1..Len(found.value) : found.value[k].distance_km <= 500

C4_Witness ==
    /\ SearchDone
    /\ \E i, j \in 1..Len(df) :
          /\ IsPointRow(df, i) /\ HasCapacity(df, i) /\ RowDistance(df, i) = 5000
          /\ i \in FoundIds
          /\ IsPointRow(df, j) /\ HasCapacity(df, j) /\ RowDistance(df, j) = 5010
          /\ j \notin FoundIds

\* C5: find_nearby_daycares returns the qualifying facilities sorted by
\* ascending distance_km, records of equal distance_km in dataset order.
C5_SortedStable ==
    SearchDone =>
        /\ FoundIds = {i \in 1..Len(df) : Qualifies(df, i, SEARCH_RADIUS_KM)}
        /\ Len(found.value) = Cardinality(FoundIds)
        /\ \A a, b \in 1..Len(found.value) :
              a < b =>
                  /\ found.value[a].distance_km <= found.value[b].distance_km
                  /\ (found.value[a].distance_km = found.value[b].distance_km
                        => found.value[a].loc_id < found.value[b].loc_id)

C5_Witness ==
    /\ SearchDone
    /\ Len(found.value) = 3
    /\ found.value[1].loc_id = 3
    /\ found.value[2].loc_id = 1
    /\ found.value[2].distance_km = found.value[3].distance_km
    /\ found.value[1].distance_km < found.value[2].distance_km

\* a facility at the user's exact coordinate with positive infant capacity
AtUserWithInfantSpace(i) ==
    /\ IsPointRow(df, i)
    /\ df[i].geometry.coordinates[2] = user.some[1]
    /\ df[i].geometry.coordinates[1] = user.some[2]
    /\ df[i].IGSPACE # Null /\ df[i].IGSPACE.some > 0

InfantSearch == SearchDone /\ ElapsedWholeMonths(birthday, reference) = 0

\* C6 as claimed: in an infant search (0 elapsed months) a facility at the
\* user's exact coordinate with positive infant capacity is the first result.
C6_Original ==
    InfantSearch =>
        \A i \in 1..Len(df) :
            AtUserWithInfantSpace(i)
                => (Len(found.value) >= 1 /\ found.value[1].loc_id = i)

\* C6 amended: in an infant search a facility at the user's exact coordinate
\* with positive infant capacity is returned with distance_km 0.00, and the
\* only records before it are earlier dataset rows that also show 0.00.
C6_FirstAmongZeroDistance ==
    InfantSearch =>
        \A i \in 1..Len(df) :
            AtUserWithInfantSpace(i)
                => \E k \in 1..Len(found.value) :
                      /\ found.value[k].loc_id = i
                      /\ found.value[k].distance_km = 0
                      /\ \A j \in 1..(k - 1) :
                            /\ found.value[j].distance_km = 0
                            /\ found.value[j].loc_id < i

C6_Witness ==
    /\ InfantSearch
    /\ Len(found.value) = 3
    /\ AtUserWithInfantSpace(3)
    /\ found.value[2].loc_id = 3
    /\ found.value[1].loc_id = 2
    /\ RowDistance(df, 2) = 4
    /\ found.value[3].loc_id = 1

\* radii (metres) compared in C7, in ascending order
Radii == <<0, 4, 4991, 5000>>

\* the dataset with the capacity of row i in the child's column set to c
WithCapacity(rows, i, c) ==
    [rows EXCEPT ![i] = [@ EXCEPT ![AGE_GROUPS[ChildGroup].column] = Some(c)]]

\* the number of results of the search of the state under another radius
CountWithin(radius) ==
    Len(FindNearby(radius, user.some[1], user.some[2], birthday, df, reference).value)

\* the ids returned once row i has capacity c in the child's column
IdsWithCapacity(i, c) ==
    IdsOf(find_nearby_daycares(user.some[1], user.some[2], birthday,
                               WithCapacity(df, i, c), reference).value)

\* ids is the found ids, with i added exactly when row i is within the radius
AddsAtMost(ids, i) ==
    /\ FoundIds \subseteq ids
    /\ ids \subseteq FoundIds \cup {i}
    /\ i \in ids <=> (IsPointRow(df, i) /\ RowDistance(df, i) <= SEARCH_RADIUS_KM)

NonDecreasing(counts) == \A k \in 1..(Len(counts) - 1) : counts[k] <= counts[k + 1]

\* C7: filtering is monotonic: for a fixed dataset, coordinate and bracket a
\* smaller radius never gives more results, and a capacity raised from
\* 0/null to positive removes no facility from the results (and adds its own
\* facility exactly when that one is within the radius).
C7_FilterMonotonic ==
    SearchDone =>
        /\ Radii[Len(Radii)] = SEARCH_RADIUS_KM
        /\ NonDecreasing([k \in 1..(Len(Radii) - 1) |-> CountWithin(Radii[k])]
                            \o <<Len(found.value)>>)
        /\ \A i \in 1..Len(df) : \A c \in {1, 2} :
              ~HasCapacity(df, i) => AddsAtMost(IdsWithCapacity(i, c), i)

C7_Witness ==
    /\ SearchDone
    /\ Len(found.value) = 2
    /\ Len(FindNearby(4, user.some[1], user.some[2], birthday, df, reference).value) = 1
    /\ \E i \in 1..Len(df) :
          /\ SelectedCapacity(df, i) = Null
          /\ IsPointRow(df, i) /\ RowDistance(df, i) = 5000
          /\ Len(find_nearby_daycares(user.some[1], user.some[2], birthday,
                    WithCapacity(df, i, 1), reference).value) = 3

(***************************************************************************)
(* Claims about calculate_stats and parse_walk_time.                       *)
(***************************************************************************)
StatsDone == op = "calculate_stats" /\ pc = "done"

\* the results with the given flag set
Flagged(flag) == {k \in 1..Len(results) : results[k][flag]}

\* total is 1, 2, 4 or 8: count / total is a float, and so is its product
\* with 100
ExactQuotient(total) == total \in {1, 2, 4, 8}

\* p is count / total * 100 rounded to the nearest integer; of a half that
\* the floats hold the even neighbour is taken, of another half either
IsRoundedPercent(p, count, total) ==
    /\ 2 * Abs(100 * count - p * total) <= total
    /\ (2 * Abs(100 * count - p * total) = total /\ ExactQuotient(total)) => p % 2 = 0

RECURSIVE CapacitySum(_)
CapacitySum(ks) ==
    IF ks = {} THEN 0
    ELSE LET k == CHOOSE x \in ks : TRUE
         IN  results[k].capacity + CapacitySum(ks \ {k})

\* C8: for a non-empty result list calculate_stats returns total = number of
\* results, cwelcc_count and subsidy_count = number of results with the flag,
\* each percentage = round(count / total * 100), total_spaces = the sum of the
\* results' capacity; 4 results with 2 flagged give count 2 and percent 50.
\* The rounding is that of the float: 3 of 8 (37.5, a float) give 38, 23 of
\* 40 (a product just below 57.5 in floats) give 57.
C8_StatsOfResults ==
    (StatsDone /\ results # <<>>) =>
        /\ ~stats.raised
        /\ stats.value.total = Len(results)
        /\ stats.value.cwelcc_count = Cardinality(Flagged("cwelcc"))
        /\ stats.value.subsidy_count = Cardinality(Flagged("subsidy"))
        /\ IsRoundedPercent(stats.value.cwelcc_percent,
                            Cardinality(Flagged("cwelcc")), Len(results))
        /\ IsRoundedPercent(stats.value.subsidy_percent,
                            Cardinality(Flagged("subsidy")), Len(results))
        /\ stats.value.total_spaces = CapacitySum(1..Len(results))
        /\ (Len(results) = 4 /\ Cardinality(Flagged("cwelcc")) = 2)
              => (stats.value.cwelcc_count = 2 /\ stats.value.cwelcc_percent = 50)
        /\ (Len(results) = 8 /\ Cardinality(Flagged("cwelcc")) = 3)
              => (stats.value.cwelcc_percent = 38 /\ stats.value.subsidy_percent = 62)
        /\ (Len(results) = 40 /\ Cardinality(Flagged("cwelcc")) = 23)
              => (stats.value.cwelcc_percent = 57 /\ stats.value.subsidy_percent = 42)

C8_Witness ==
    /\ StatsDone
    /\ Len(results) = 4
    /\ Cardinality(Flagged("cwelcc")) = 2
    /\ stats.value.cwelcc_percent = 50
    /\ stats.value.subsidy_count = 1
    /\ stats.value.subsidy_percent = 25
    /\ stats.value.total_spaces = 7

PercentKeys == {"cwelcc_percent", "subsidy_percent"}

\* C9: given 0 results calculate_stats does not fail, and every percentage
\* in the statistics it returns is 0.
C9_EmptyResults ==
    (StatsDone /\ results = <<>>) =>
        /\ ~stats.raised
        /\ \A key \in PercentKeys \cap DOMAIN stats.value : stats.value[key] = 0

C9_Witness ==
    StatsDone /\ results = <<>> /\ stats = Returned(<<>>)

SP == <<" ">>

HourWords == {HOUR, HOUR \o <<"s">>}

MinWords == {MIN, MIN \o <<"s">>}

DurationNumbers == {0, 1, 5, 15}

MinutesOrNone(total) == IF total > 0 THEN Some(total) ELSE Null

WalkDone == op = "parse_walk_time" /\ pc = "done"

\* C10: parse_walk_time gives 60 * hours + minutes: "15 mins" -> 15,
\* "1 hour 5 mins" -> 65; an absent value, "", "N/A", a string with no number
\* in it and a total of 0 give None; the result is never 0 or negative; no
\* exception escapes.
C10_ParseWalkTime ==
    WalkDone =>
        /\ ~walk_out.raised
        /\ (walk_out.value # Null => walk_out.value.some > 0)
        /\ (walk_str = Null => walk_out.value = Null)
        /\ (walk_str \in {Some(<<>>), Some(NA)} => walk_out.value = Null)
        /\ (walk_str = Some(Str15Mins) => walk_out.value = Some(15))
        /\ (walk_str = Some(<<"1", " ", "h", "o", "u", "r", " ", "5", " ", "m", "i", "n", "s">>)
              => walk_out.value = Some(65))
        /\ \A h \in DurationNumbers, m \in DurationNumbers :
              \A hw \in HourWords, mw \in MinWords :
                /\ (walk_str = Some(Dec(h) \o SP \o hw \o SP \o Dec(m) \o SP \o mw)
                      => walk_out.value = MinutesOrNone(60 * h + m))
                /\ (walk_str = Some(Dec(m) \o SP \o mw)
                      => walk_out.value = MinutesOrNone(m))
                /\ (walk_str = Some(Dec(h) \o SP \o hw \o SP)
                      => walk_out.value = MinutesOrNone(60 * h))
        /\ ((walk_str # Null /\ \A k \in 1..Len(walk_str.some) : walk_str.some[k] \notin Digits)
              => walk_out.value = Null)

C10_Witness ==
    /\ WalkDone
    /\ walk_str = Some(<<"1", " ", "h", "o", "u", "r", "s", " ", "1", "5", " ", "m", "i", "n">>)
    /\ walk_out = Returned(Some(75))

(***************************************************************************)
(* Claims about the shortlist endpoint.                                    *)
(***************************************************************************)
ShortlistDone == op = "send_shortlist" /\ pc = "done"

\* the email-shape pattern: a local part, "@", a domain, ".", and a top-level
\* part of two or more letters
EmailShape(s) ==
    \E at \in 2..Len(s) : \E dot \in (at + 2)..(Len(s) - 2) :
        /\ s[at] = "@"
        /\ s[dot] = "."
        /\ \A k \in 1..(at - 1) : s[k] \in LocalChars
        /\ \A k \in (at + 1)..(dot - 1) : s[k] \in DomainChars
        /\ \A k \in (dot + 1)..Len(s) : s[k] \in Letters

\* the email of the request, surrounding whitespace removed ("" if absent)
PostedEmail ==
    IF payload # Null /\ "email" \in DOMAIN payload.some
    THEN Strip(payload.some.email) ELSE <<>>

\* the daycare list of the request (empty if absent)
PostedDaycares ==
    IF payload # Null /\ "daycares" \in DOMAIN payload.some
    THEN payload.some.daycares ELSE <<>>

IsRejection == reply.some.status = 400 /\ ~reply.some.success /\ mail_calls = <<>>

\* C11: the shortlist endpoint rejects an empty daycare list whatever the
\* email, and a malformed email ("not-an-email") whatever the list;
\* send_shortlist_email is called only for an email of the email shape and a
\* non-empty list, and then once, with that email and that list.
C11_ShortlistRejections ==
    ShortlistDone =>
        /\ PostedDaycares = <<>> => IsRejection
        /\ ~EmailShape(PostedEmail) => IsRejection
        /\ (PostedEmail = <<"n", "o", "t", "-", "a", "n", "-", "e", "m", "a", "i", "l">>)
              => (IsRejection /\ reply.some.text = "Invalid email format")
        /\ mail_calls # <<>> => (EmailShape(PostedEmail) /\ PostedDaycares # <<>>)
        /\ (EmailShape(PostedEmail) /\ PostedDaycares # <<>>)
              => /\ Len(mail_calls) = 1
                 /\ mail_calls[1].to_email = PostedEmail
                 /\ mail_calls[1].daycares = PostedDaycares

C11_Witness ==
    /\ ShortlistDone
    /\ payload # Null
    /\ "email" \in DOMAIN payload.some
    /\ payload.some.email = <<"a", "@", "b", ".", "c", "o", " ">>
    /\ Len(mail_calls) = 1
    /\ mail_calls[1].to_email = <<"a", "@", "b", ".", "c", "o">>
    /\ Len(mail_calls[1].daycares) = 2
    /\ reply.some.status = 500

(***************************************************************************)
(* Claims about the search request.                                        *)
(***************************************************************************)
InRequest == op = "index"

RequestDone == op = "index" /\ pc = "done"

\* the field of the form as typed ("" if absent)
Typed(key) == IF key \in DOMAIN form.some THEN form.some[key] ELSE <<>>

Blank(s) == \A k \in 1..Len(s) : s[k] = " "

\* the date a typed date field stands for: the well-formed ones
DateTable ==
    [typed : {<<"2", "0", "2", "5", "-", "0", "8", "-", "2", "0">>},
     date : {Date(2025, 8, 20)}]
    \cup [typed : {<<" ", "2", "0", "2", "4", "-", "3", "-", "2", " ">>},
          date : {Date(2024, 3, 2)}]
    \cup [typed : {<<"2", "0", "2", "5", "-", "0", "9", "-", "0", "3">>},
          date : {Date(2025, 9, 3)}]
    \cup [typed : {<<"2", "0", "2", "5", "-", "0", "9", "-", "0", "2">>},
          date : {Date(2025, 9, 2)}]

WellFormedDate(s) == \E e \in DateTable : e.typed = s

DateTyped(s) == (CHOOSE e \in DateTable : e.typed = s).date

\* the start date of the request: the typed one, else the date of the day
EffectiveStart ==
    IF Blank(Typed("start_date")) THEN today.some ELSE DateTyped(Typed("start_date"))

\* a validation error: a missing address, a missing or malformed birthday,
\* a malformed start date, or a birthday after the start date
HasValidationError ==
    \/ Blank(Typed("address"))
    \/ Blank(Typed("birthday"))
    \/ ~WellFormedDate(Typed("birthday"))
    \/ ~Blank(Typed("start_date")) /\ ~WellFormedDate(Typed("start_date"))
    \/ DateLT(EffectiveStart, DateTyped(Typed("birthday")))

\* nothing of the search has been done
NoSearchDone ==
    /\ calls = <<>>
    /\ df = <<>> /\ user = Null /\ found = NoCall /\ results = <<>> /\ stats = NoCall

\* the page is the form, with the error list and the address and birthday
\* typed (surrounding whitespace apart)
FormWithErrors ==
    /\ page.some.template = "index.html"
    /\ page.some.errors # <<>>
    /\ page.some.errors = errors
    /\ page.some.address = Strip(Typed("address"))
    /\ page.some.birthday = Strip(Typed("birthday"))

\* C12 as claimed: a request with a validation error ends with the form
\* re-rendered with the error list and the prior input, the start date field
\* included, and nothing of the search is done.
C12_Original ==
    (RequestDone /\ HasValidationError) =>
        /\ FormWithErrors
        /\ page.some.start_date = Strip(Typed("start_date"))
        /\ NoSearchDone

\* C12 amended: a request with a validation error ends with the form
\* re-rendered with the error list, the address and the birthday typed, and
\* the start date typed or, when none was typed, the date of the day; at no
\* step of such a request is the geocoder, the dataset load or the
\* travel-time annotator called.
C12_ValidationErrorStopsSearch ==
    (InRequest /\ HasValidationError) =>
        /\ pc \in {"start", "done"}
        /\ NoSearchDone
        /\ pc = "done" =>
              /\ FormWithErrors
              /\ page.some.start_date =
                    IF Blank(Typed("start_date")) THEN strftime(today.some)
                    ELSE Strip(Typed("start_date"))

C12_Witness ==
    /\ RequestDone
    /\ Typed("address") = <<" ">>
    /\ Typed("birthday") = <<"2", "0", "2", "5", "-", "0", "9", "-", "0", "3">>
    /\ "start_date" \notin DOMAIN form.some
    /\ today.some = Date(2025, 9, 2)
    /\ errors = <<"Please enter an address", "Birthday cannot be after the start date">>
    /\ page.some.start_date = <<"2", "0", "2", "5", "-", "0", "9", "-", "0", "2">>
    /\ calls = <<>>

\* the request passed validation: no error when the form was read
PassedValidation == InRequest /\ pc # "start" /\ ~HasValidationError

CallsOf(fn) == {k \in 1..Len(calls) : calls[k].fn = fn}

\* what the Google client gave the geocoder (the geocoder called, the client
\* made)
ClientAnswer == calls[CHOOSE k \in CallsOf("client.geocode") : TRUE].answer

\* the first result names a precise Toronto street address
PreciseTorontoAddress(hit) ==
    /\ hit.location # Null
    /\ hit.location_type \in {"ROOFTOP", "RANGE_INTERPOLATED"}
    /\ \E c \in {hit.components[k] : k \in 1..Len(hit.components)} :
          "locality" \in c.types /\ Contains(Lower(c.long_name), TORONTO)
    /\ \E c \in {hit.components[k] : k \in 1..Len(hit.components)} :
          c.types \cap {"street_number", "route"} # {}

\* the geocoder has been called and has returned no coordinate: it got no
\* client, the client raised or found nothing, or the first result is not a
\* precise Toronto street address
GeocoderGaveNothing ==
    /\ CallsOf("geocode_address") # {}
    /\ \/ CallsOf("client.geocode") = {}
       \/ ClientAnswer.kind # "ok"
       \/ ClientAnswer.results = <<>>
       \/ ~PreciseTorontoAddress(ClientAnswer.results[1])

\* C13: when the geocoder returns no coordinate for a validated request, the
\* request ends in the not-found page, which is neither the form with errors
\* nor a search error; the dataset is never loaded and the travel-time
\* annotator never called.  The not-found page is given in no other case.
C13_GeocodingFailure ==
    /\ (PassedValidation /\ GeocoderGaveNothing) =>
          /\ pc = "done"
          /\ page = Some([template |-> "not-found.html"])
          /\ errors = <<>>
          /\ user = Null
          /\ Cardinality(CallsOf("geocode_address")) = 1
          /\ CallsOf("load_daycare_data") = {}
          /\ CallsOf("get_all_travel_times") = {}
          /\ df = <<>> /\ found = NoCall /\ results = <<>> /\ stats = NoCall
    /\ (RequestDone /\ page.some.template = "not-found.html")
          => (PassedValidation /\ GeocoderGaveNothing)

C13_Witness ==
    /\ RequestDone
    /\ page.some.template = "not-found.html"
    /\ CallsOf("client.geocode") # {}
    /\ ClientAnswer.kind = "ok"
    /\ Len(ClientAnswer.results) = 1
    /\ ClientAnswer.results[1].location_type = "ROOFTOP"
    /\ ClientAnswer.results[1].location # Null
    /\ Len(ClientAnswer.results[1].components) = 1
    /\ Len(calls) = 2

(***************************************************************************)
(* Claims about rows with data errors.                                     *)
(***************************************************************************)
RowsDone == op = "find_nearby_daycares on raw rows" /\ pc = "done"

\* a row with a per-row data error: a geometry that is no point of two
\* coordinates, or no capacity in the column of the child's bracket
HasDataError(rows, i) == ~IsPointRow(rows, i) \/ SelectedCapacity(rows, i) = Null

\* C14 as claimed: a per-row data error never aborts the search: the search
\* raises nothing, a row whose geometry is malformed, untagged or no Point,
\* or whose capacity is missing, is skipped, and every other qualifying row
\* is returned.
C14_RowErrorsSkipped ==
    RowsDone =>
        /\ ~found.raised
        /\ \A i \in 1..Len(df) : HasDataError(df, i) => i \notin FoundIds
        /\ \A i \in 1..Len(df) :
              (~HasDataError(df, i) /\ Qualifies(df, i, SEARCH_RADIUS_KM)) => i \in FoundIds

\* the rows whose error the search does skip: a geometry that does not
\* decode, has no type tag or is no Point, or a capacity that is missing
Skippable(rows, i) ==
    \/ rows[i].geometry.json = "invalid"
    \/ rows[i].geometry.type # Some("Point")
    \/ (IsPointRow(rows, i) /\ SelectedCapacity(rows, i) = Null)

\* the search of a dataset whose point geometries all have two coordinates
\* and whose rows all have their total raises nothing, skips the rows with
\* a data error and returns every other qualifying row
C14_SkippedWhenWellShaped ==
    (RowsDone /\ \A i \in 1..Len(df) :
                    /\ (Skippable(df, i) \/ IsPointRow(df, i))
                    /\ df[i].TOTSPACE # Null) =>
        /\ ~found.raised
        /\ FoundIds = {i \in 1..Len(df) : Qualifies(df, i, SEARCH_RADIUS_KM)}

C14_Witness ==
    /\ RowsDone
    /\ Len(df) = 3
    /\ df[1].geometry = NoTypeTag
    /\ df[2].geometry = Point(0) /\ df[2].IGSPACE = Some(1)
    /\ df[3].geometry = Polygon
    /\ ~found.raised
    /\ FoundIds = {2}

\* the search aborted by one row: a point of one coordinate after a
\* qualifying row
C14_Aborted ==
    /\ RowsDone
    /\ Len(df) = 2
    /\ Qualifies(df, 1, SEARCH_RADIUS_KM)
    /\ df[2].geometry = ShortPoint
    /\ found.raised

(***************************************************************************)
(* Claims about the errors of the search.                                  *)
(***************************************************************************)
\* the request passed validation and the geocoder gave a coordinate
SearchStarted == PassedValidation /\ user # Null

\* the messages of a search error
SearchErrors ==
    {"Error searching daycares: FileNotFoundError",
     "Error searching daycares: ParserError",
     "Error searching daycares: ValueError",
     "Error searching daycares: IndexError",
     "Error searching daycares: KeyError",
     "Error searching daycares: Exception"}

\* the dataset was asked for and none came: no search followed
LoadFailed == CallsOf("load_daycare_data") # {} /\ pc = "done" /\ df = <<>> /\ found = NoCall

\* the annotator was called and the results were never set
AnnotationFailed ==
    CallsOf("get_all_travel_times") # {} /\ pc = "done" /\ results = <<>>

\* a step of the search raised: loading, filtering, annotating, aggregating
StepFailed == LoadFailed \/ found.raised \/ AnnotationFailed \/ stats.raised

\* the page is the form, carrying the search error alone and the input
FormWithSearchError ==
    /\ page.some.template = "index.html"
    /\ Len(errors) = 1
    /\ errors[1] \in SearchErrors
    /\ page.some.errors = errors
    /\ page.some.address = Strip(Typed("address"))
    /\ page.some.birthday = Strip(Typed("birthday"))

\* C15: a request that passed validation and geocoding always goes on to a
\* page, never to an unhandled exception: it ends with the results page when
\* every step of the search returned, and with the form carrying one
\* search-error message when loading (no dataset file among the cases),
\* filtering, annotating or aggregating raised.
C15_SearchErrorsHandled ==
    SearchStarted =>
        /\ pc \in {"load", "find", "annotate", "stats", "done"}
        /\ pc # "done" => (page = Null /\ errors = <<>>)
        /\ pc = "done" =>
              /\ page # Null
              /\ page.some.template \in {"index.html", "results.html"}
              /\ StepFailed => FormWithSearchError
              /\ ~StepFailed =>
                    /\ page.some.template = "results.html"
                    /\ errors = <<>>
                    /\ ~found.raised /\ ~stats.raised
                    /\ page.some.results = results
        /\ (LoadFailed /\ df = <<>> /\ errors # <<>>
              /\ errors[1] = "Error searching daycares: FileNotFoundError")
              => FormWithSearchError

\* a request with no dataset file ended with the form and its search error
C15_Witness ==
    /\ RequestDone
    /\ SearchStarted
    /\ LoadFailed
    /\ FormWithSearchError
    /\ errors[1] = "Error searching daycares: FileNotFoundError"

(***************************************************************************)
(* Claims about the rounding of the distance.                              *)
(***************************************************************************)
\* the radius in the unit of distance_km, hundredths of a kilometre
RoundedRadius == Round2(SEARCH_RADIUS_KM)

\* row i is a point with capacity whose rounded distance is within the radius
QualifiesRounded(rows, i) ==
    IsPointRow(rows, i) /\ HasCapacity(rows, i)
        /\ Round2(RowDistance(rows, i)) <= RoundedRadius

\* C16 as claimed: the radius comparison uses the distance rounded to two
\* decimal places, the value displayed as distance_km: the rows returned are
\* the point rows with capacity whose rounded distance is at most 5.00, and
\* each is displayed with that rounded distance.
C16_RoundedBeforeFiltering ==
    SearchDone =>
        /\ FoundIds = {i \in 1..Len(df) : QualifiesRounded(df, i)}
        /\ \A k \in 1..Len(found.value) :
              /\ found.value[k].distance_km = Round2(RowDistance(df, found.value[k].loc_id))
              /\ found.value[k].distance_km <= RoundedRadius

\* a facility with capacity 5.004 km away, displayed as 5.00 if it were
\* returned, is left out of the results
C16_BorderlineLeftOut ==
    /\ SearchDone
    /\ \E i \in 1..Len(df) :
          /\ IsPointRow(df, i) /\ HasCapacity(df, i)
          /\ RowDistance(df, i) = 5001
          /\ Round2(RowDistance(df, i)) = RoundedRadius
          /\ i \notin FoundIds

\* what does hold: the comparison is made on the unrounded distance, and the
\* displayed distance of a returned row is its rounded distance, never above
\* 5.00
C16_ComparedUnrounded ==
    SearchDone =>
        /\ FoundIds = {i \in 1..Len(df) : Qualifies(df, i, SEARCH_RADIUS_KM)}
        /\ \A k \in 1..Len(found.value) :
              found.value[k].distance_km <= RoundedRadius

(***************************************************************************)
(* Claims about the travel-time annotation.                                *)
(***************************************************************************)
\* the call of the annotator (there is at most one)
AnnotatorCall == calls[CHOOSE k \in CallsOf("get_all_travel_times") : TRUE]

AnnotatorCalled == CallsOf("get_all_travel_times") # {}

\* the records of a list but for the travel times
WithoutTimes(list) ==
    [k \in 1..Len(list) |->
        [key \in DOMAIN list[k] \ {"walk_time", "drive_time"} |-> list[k][key]]]

\* the response of a mode is a well-formed one with fewer elements than
\* destinations
ShortResponse(response) ==
    /\ response.kind = "ok"
    /\ Len(response.elements) < Len(AnnotatorCall.arg)
    /\ \A k \in 1..Len(response.elements) :
          /\ response.elements[k].status # Null
          /\ response.elements[k].status.some = "OK" => response.elements[k].text # Null

SomeShortResponse ==
    \E mode \in {"walking", "transit", "driving"} :
        ShortResponse(AnnotatorCall.answer[mode][1])

\* C17 as claimed: whatever the distance-matrix call does for a mode, a
\* request that asked for travel times ends with the results page holding
\* the result list of the search, each of the first results carrying a walk
\* and a drive time that is a duration text or "N/A".
C17_AnnotationNeverFatal ==
    (RequestDone /\ AnnotatorCalled) =>
        /\ page.some.template = "results.html"
        /\ WithoutTimes(page.some.results) = WithoutTimes(found.value)
        /\ \A k \in 1..Len(AnnotatorCall.arg) :
              /\ page.some.results[k].walk_time # Null
              /\ page.some.results[k].drive_time # Null

\* a response with one element too few for the transit mode ended the
\* request with the form and a search error, the results lost
C17_ShortResponseFatal ==
    /\ RequestDone
    /\ AnnotatorCalled
    /\ found.value # <<>>
    /\ ShortResponse(AnnotatorCall.answer.transit[1])
    /\ page.some.template = "index.html"
    /\ errors = <<"Error searching daycares: IndexError">>
    /\ results = <<>>

\* what does hold: the request loses its results exactly when a mode got a
\* response with fewer elements than destinations; a call that raises, a
\* response without rows, an element that is not OK or lacks a field leave
\* the result list whole, "N/A" put for the batch or the element
C17_FatalOnlyWhenShort ==
    (RequestDone /\ AnnotatorCalled) =>
        IF SomeShortResponse
        THEN page.some.template = "index.html" /\ results = <<>>
        ELSE /\ page.some.template = "results.html"
             /\ WithoutTimes(page.some.results) = WithoutTimes(found.value)
             /\ AnnotatorCall.answer.walking[1].kind # "ok" =>
                   \A k \in 1..Len(AnnotatorCall.arg) :
                       page.some.results[k].walk_time = Some(NA)
             /\ AnnotatorCall.answer.driving[1].kind # "ok" =>
                   \A k \in 1..Len(AnnotatorCall.arg) :
                       page.some.results[k].drive_time = Some(NA)

(***************************************************************************)
(* Claims about the cap of the travel-time annotation.                     *)
(***************************************************************************)
\* the number of results the annotation covers: the nearest twenty
Capped(n) == IF n < 20 THEN n ELSE 20

\* the search has returned its list and the request is past the annotation
PastAnnotation ==
    /\ SearchStarted
    /\ pc \in {"stats", "done"}
    /\ ~LoadFailed
    /\ ~found.raised

Annotated == PastAnnotation /\ ~AnnotationFailed

\* C18: the annotator is called at most once in a request; not at all
\* when the search found nothing; for n > 0 results with exactly the
\* coordinates of the first min(20, n) results in rank order; and when it
\* returns, exactly those results carry walk_time and drive_time.
C18_AnnotationCapped ==
    /\ InRequest => Cardinality(CallsOf("get_all_travel_times")) <= 1
    /\ PastAnnotation =>
          /\ found.value = <<>> => ~AnnotatorCalled
          /\ found.value # <<>> =>
                /\ AnnotatorCalled
                /\ Len(AnnotatorCall.arg) = Capped(Len(found.value))
                /\ \A k \in 1..Len(AnnotatorCall.arg) :
                      AnnotatorCall.arg[k] = <<found.value[k].lat, found.value[k].lon>>
    /\ (InRequest /\ AnnotatorCalled) => PastAnnotation
    /\ Annotated =>
          /\ Len(results) = Len(found.value)
          /\ \A k \in 1..Len(results) :
                /\ ("walk_time" \in DOMAIN results[k]) <=> (k <= Capped(Len(results)))
                /\ ("drive_time" \in DOMAIN results[k]) <=> (k <= Capped(Len(results)))

\* a search with twenty-two results, twenty of them annotated
C18_Witness ==
    /\ RequestDone
    /\ page.some.template = "results.html"
    /\ Len(found.value) = 22
    /\ Len(AnnotatorCall.arg) = 20
    /\ "walk_time" \in DOMAIN page.some.results[20]
    /\ "walk_time" \notin DOMAIN page.some.results[21]

(***************************************************************************)
(* Claims about the walking-distance count of a request.                   *)
(***************************************************************************)
\* the duration texts the walking mode answers with, and "N/A"
KnownWalkTimes == {Some(Str15Mins), Some(Str16Mins), Some(Str65Mins), Some(Str5Mins),
                   Some(StrXMins), Some(NA)}

\* the walk times that read as at most 15 minutes: "15 mins" and "5 mins"
\* ("16 mins" and "1 hour 5 mins" are more, "x mins" and "N/A" are none)
ShortWalkTimes == {Some(Str15Mins), Some(Str5Mins)}

\* result k of the list has a walk time of at most 15 minutes
ShortWalk(list, k) ==
    "walk_time" \in DOMAIN list[k] /\ list[k].walk_time \in ShortWalkTimes

\* the request ended with the results page of a non-empty list
ResultsShown ==
    RequestDone /\ page.some.template = "results.html" /\ results # <<>>

\* C19: the statistics are computed after the annotation, and
\* walking_distance is the number of results whose walk time reads as a
\* number of minutes that is at most 15; a result without walk time (each
\* one past the twenty annotated), with "N/A" or with a text that does not
\* read is not counted, so the count is at most min(20, total).
C19_WalkingDistanceCount ==
    /\ (InRequest /\ pc \in {"start", "geocode", "load", "find", "annotate"})
          => stats = NoCall
    /\ ResultsShown =>
          /\ AnnotatorCalled
          /\ page.some.stats = stats.value
          /\ stats.value.total = Len(results)
          /\ \A k \in 1..Len(results) :
                /\ "walk_time" \in DOMAIN results[k] => results[k].walk_time \in KnownWalkTimes
                /\ k > 20 => "walk_time" \notin DOMAIN results[k]
          /\ stats.value.walking_distance =
                Cardinality({k \in 1..Len(results) : ShortWalk(results, k)})
          /\ stats.value.walking_distance <= Capped(stats.value.total)

\* twenty-two results: some within 15 minutes, one "N/A", one that does not
\* read, two without walk time
C19_Witness ==
    /\ ResultsShown
    /\ Len(results) = 22
    /\ stats.value.walking_distance > 0
    /\ stats.value.walking_distance < 20
    /\ \E k \in 1..20 : results[k].walk_time = Some(NA)
    /\ \E k \in 1..20 : results[k].walk_time = Some(StrXMins)
    /\ \E k \in 1..20 : results[k].walk_time = Some(Str65Mins)
    /\ "walk_time" \notin DOMAIN results[22]

====
